---- MODULE Spec2Model ----
(***************************************************************************)
(* Streaming claim pipeline of the fact-checker: text normalisation and    *)
(* similarity (src/lib/claimProcessing.ts), the claim registry, the        *)
(* verification queue and its single worker, and the debounced extraction  *)
(* scheduler (src/app/page.tsx).                                           *)
(*                                                                         *)
(* A string is a sequence of characters, each character a one-character    *)
(* TLA+ string; the code points U+00A3 and U+20AC are written "POUND" and  *)
(* "EURO".                                                                 *)
(***************************************************************************)
EXTENDS Integers, Sequences, FiniteSets, TLC

(* ------------------------------------------------------------------ *)
(* Characters                                                         *)
(* ------------------------------------------------------------------ *)

UpperCase == <<"A","B","C","D","E","F","G","H","I","J","K","L","M",
               "N","O","P","Q","R","S","T","U","V","W","X","Y","Z">>

LowerCase == <<"a","b","c","d","e","f","g","h","i","j","k","l","m",
               "n","o","p","q","r","s","t","u","v","w","x","y","z">>

Digits == {"0","1","2","3","4","5","6","7","8","9"}

\* \w of a JavaScript regular expression: [A-Za-z0-9_]
IsWordChar(c) ==
  \/ \E i \in 1..26 : c = UpperCase[i] \/ c = LowerCase[i]
  \/ c \in Digits
  \/ c = "_"

\* \s of a JavaScript regular expression (the members that can occur here)
IsSpace(c) == c \in {" ", "\t", "\n"}

\* String.prototype.toLowerCase on one character
LowerChar(c) ==
  IF \E i \in 1..26 : c = UpperCase[i]
  THEN LowerCase[CHOOSE i \in 1..26 : c = UpperCase[i]]
  ELSE c

toLowerCase(s) == [i \in 1..Len(s) |-> LowerChar(s[i])]

\* The positions of s that hold no white space
NonSpaces(s) == {i \in 1..Len(s) : ~IsSpace(s[i])}

\* s from its first character that is no white space
TrimLeft(s) ==
  IF NonSpaces(s) = {} THEN <<>>
  ELSE SubSeq(s, CHOOSE i \in NonSpaces(s) : \A j \in NonSpaces(s) : i <= j, Len(s))

\* s up to its last character that is no white space
TrimRight(s) ==
  IF NonSpaces(s) = {} THEN <<>>
  ELSE SubSeq(s, 1, CHOOSE i \in NonSpaces(s) : \A j \in NonSpaces(s) : j <= i)

\* String.prototype.trim
trim(s) == TrimRight(TrimLeft(s))

(* ------------------------------------------------------------------ *)
(* Regular-expression replacement, as normalizeClaim uses it          *)
(* ------------------------------------------------------------------ *)

\* \b between s[i-1] and s[i] (i in 1..Len(s)+1)
WordBoundary(s, i) ==
  LET before == i > 1 /\ IsWordChar(s[i - 1])
      after == i <= Len(s) /\ IsWordChar(s[i])
  IN  before # after

\* s has the literal w at position i
HasAt(s, i, w) ==
  /\ i + Len(w) - 1 <= Len(s)
  /\ \A k \in 1..Len(w) : s[i + k - 1] = w[k]

RECURSIVE SkipSpaces(_, _)
SkipSpaces(s, i) ==
  IF i <= Len(s) /\ IsSpace(s[i]) THEN SkipSpaces(s, i + 1) ELSE i

\* A unit pattern is \b head (\s* tail)? s? \b, given as a record
\*   [head, gap, tail, plural]: gap says whether "\s* tail" is present,
\*   plural whether a final optional "s" is.
\* MatchEnd is the position after the match that starts at i, or 0.
MatchEnd(s, i, p) ==
  IF ~(WordBoundary(s, i) /\ HasAt(s, i, p.head)) THEN 0
  ELSE
    LET h == i + Len(p.head)
        j == IF p.gap THEN SkipSpaces(s, h) ELSE h
        k == IF p.gap
             THEN (IF HasAt(s, j, p.tail) THEN j + Len(p.tail) ELSE 0)
             ELSE j
    IN  IF k = 0 THEN 0
        ELSE IF p.plural /\ k <= Len(s) /\ s[k] = "s" /\ WordBoundary(s, k + 1)
             THEN k + 1
        ELSE IF WordBoundary(s, k) THEN k
        ELSE 0

\* The least position of the set, or 0
FirstOf(positions) ==
  IF positions = {} THEN 0
  ELSE CHOOSE k \in positions : \A j \in positions : k <= j

\* The first position from i on where the pattern matches, or 0
NextMatch(s, i, p) == FirstOf({k \in i..Len(s) : MatchEnd(s, k, p) > 0})

RECURSIVE ReplaceFrom(_, _, _, _)

\* The scan from i when the next match is at m: the text before the match
\* is kept, the match is replaced, and the scan goes on behind it
ReplaceAt(s, i, p, r, m) ==
  IF m = 0 THEN SubSeq(s, i, Len(s))
  ELSE SubSeq(s, i, m - 1) \o r \o ReplaceFrom(s, MatchEnd(s, m, p), p, r)

\* The global replacement scans from the left
ReplaceFrom(s, i, p, r) == ReplaceAt(s, i, p, r, NextMatch(s, i, p))

\* s.replace(/pattern/gi, r)
ReplaceAll(s, p, r) == ReplaceFrom(s, 1, p, r)

Word(w, plural) == [head |-> w, gap |-> FALSE, tail |-> <<>>, plural |-> plural]

\* The replacements of normalizeClaim, in the order the code applies them
UnitRules ==
  << <<Word(<<"g","i","g","a","b","y","t","e">>, TRUE), <<"g","b">> >>,
     <<Word(<<"m","e","g","a","b","y","t","e">>, TRUE), <<"m","b">> >>,
     <<Word(<<"t","e","r","a","b","y","t","e">>, TRUE), <<"t","b">> >>,
     <<Word(<<"k","i","l","o","b","y","t","e">>, TRUE), <<"k","b">> >>,
     <<Word(<<"m","i","l","l","i","o","n">>, FALSE), <<"m">> >>,
     <<Word(<<"b","i","l","l","i","o","n">>, FALSE), <<"b">> >>,
     <<Word(<<"t","h","o","u","s","a","n","d">>, FALSE), <<"k">> >>,
     <<Word(<<"d","o","l","l","a","r">>, TRUE), <<"$">> >>,
     <<Word(<<"p","o","u","n","d">>, TRUE), <<"POUND">> >>,
     <<Word(<<"e","u","r","o">>, TRUE), <<"EURO">> >>,
     <<Word(<<"p","e","r","c","e","n","t">>, FALSE), <<"%">> >>,
     <<[head |-> <<"p","e","r">>, gap |-> TRUE, tail |-> <<"c","e","n","t">>, plural |-> FALSE],
       <<"%">> >> >>

RECURSIVE ApplyRules(_, _)
ApplyRules(s, n) ==
  IF n = 0 THEN s
  ELSE ReplaceAll(ApplyRules(s, n - 1), UnitRules[n][1], UnitRules[n][2])

\* Every run of white space of s marked as one " " followed by "" for the
\* rest of the run; "" is no character of a text
MarkSpaceRuns(s) ==
  [i \in 1..Len(s) |->
     IF ~IsSpace(s[i]) THEN s[i]
     ELSE IF i > 1 /\ IsSpace(s[i - 1]) THEN ""
     ELSE " "]

\* s.replace(/\s+/g, " ")
CollapseSpaces(s) == SelectSeq(MarkSpaceRuns(s), LAMBDA c : c # "")

Punctuation == {".", ",", "!", "?", ";", ":", "'", "\""}

\* s.replace(/[.,!?;:'"]/g, "")
StripPunctuation(s) == SelectSeq(s, LAMBDA c : c \notin Punctuation)

normalizeClaim(claim) ==
  StripPunctuation(CollapseSpaces(ApplyRules(trim(toLowerCase(claim)), Len(UnitRules))))

(* ------------------------------------------------------------------ *)
(* Similarity                                                         *)
(* ------------------------------------------------------------------ *)

STOP_WORDS ==
  { <<"t","h","e">>, <<"a">>, <<"a","n">>, <<"i","s">>,
    <<"a","r","e">>, <<"w","a","s">>, <<"w","e","r","e">>, <<"b","e">>,
    <<"b","e","e","n">>, <<"b","e","i","n","g">>, <<"h","a","v","e">>, <<"h","a","s">>,
    <<"h","a","d">>, <<"d","o">>, <<"d","o","e","s">>, <<"d","i","d">>,
    <<"w","i","l","l">>, <<"w","o","u","l","d">>, <<"c","o","u","l","d">>, <<"s","h","o","u","l","d">>,
    <<"m","a","y">>, <<"m","i","g","h","t">>, <<"m","u","s","t">>, <<"s","h","a","l","l">>,
    <<"c","a","n">>, <<"n","e","e","d">>, <<"d","a","r","e">>, <<"t","o">>,
    <<"o","f">>, <<"i","n">>, <<"f","o","r">>, <<"o","n">>,
    <<"w","i","t","h">>, <<"a","t">>, <<"b","y">>, <<"f","r","o","m">>,
    <<"a","s">>, <<"i","n","t","o">>, <<"t","h","r","o","u","g","h">>, <<"d","u","r","i","n","g">>,
    <<"b","e","f","o","r","e">>, <<"a","f","t","e","r">>, <<"a","b","o","v","e">>, <<"b","e","l","o","w">>,
    <<"b","e","t","w","e","e","n">>, <<"u","n","d","e","r">>, <<"a","g","a","i","n">>, <<"f","u","r","t","h","e","r">>,
    <<"t","h","e","n">>, <<"o","n","c","e">>, <<"h","e","r","e">>, <<"t","h","e","r","e">>,
    <<"w","h","e","n">>, <<"w","h","e","r","e">>, <<"w","h","y">>, <<"h","o","w">>,
    <<"a","l","l">>, <<"e","a","c","h">>, <<"f","e","w">>, <<"m","o","r","e">>,
    <<"m","o","s","t">>, <<"o","t","h","e","r">>, <<"s","o","m","e">>, <<"s","u","c","h">>,
    <<"n","o">>, <<"n","o","r">>, <<"n","o","t">>, <<"o","n","l","y">>,
    <<"o","w","n">>, <<"s","a","m","e">>, <<"s","o">>, <<"t","h","a","n">>,
    <<"t","o","o">>, <<"v","e","r","y">>, <<"j","u","s","t">>, <<"a","n","d">>,
    <<"b","u","t">>, <<"i","f">>, <<"o","r">>, <<"b","e","c","a","u","s","e">>,
    <<"u","n","t","i","l">>, <<"w","h","i","l","e">>, <<"a","l","t","h","o","u","g","h">>, <<"t","h","o","u","g","h">>,
    <<"a","f","t","e","r">>, <<"t","h","a","t">>, <<"w","h","i","c","h">>, <<"w","h","o">>,
    <<"w","h","o","m">>, <<"t","h","i","s">>, <<"t","h","e","s","e">>, <<"t","h","o","s","e">>,
    <<"w","h","a","t">>, <<"s","a","y","s">>, <<"s","a","i","d">>, <<"a","c","c","o","r","d","i","n","g">>,
    <<"s","u","g","g","e","s","t","s">>, <<"m","e","n","t","i","o","n","e","d">>, <<"r","e","f","e","r","s">>, <<"d","e","s","c","r","i","b","e","d">>,
    <<"n","o","t","e","d">>, <<"i","n","d","i","c","a","t","e","s">>, <<"a","s","s","e","r","t","s">> }

\* text.split(/\s+/): the maximal runs of non-space characters, and an
\* empty string where the text starts or ends with white space
\* The last position of the run of non-space characters that holds i
RunEnd(s, i) ==
  CHOOSE j \in i..Len(s) :
    /\ j = Len(s) \/ IsSpace(s[j + 1])
    /\ \A k \in i..j : ~IsSpace(s[k])

SplitSpaces(s) ==
  {SubSeq(s, i, RunEnd(s, i)) :
     i \in {k \in 1..Len(s) : ~IsSpace(s[k]) /\ (k = 1 \/ IsSpace(s[k - 1]))}}
  \cup (IF s = <<>> \/ IsSpace(s[1]) \/ IsSpace(s[Len(s)]) THEN {<<>>} ELSE {})

\* contentTokens without the stop-word filter
contentTokensKeepsStopWords(text) ==
  {tok \in SplitSpaces(text) : Len(tok) > 2}

contentTokens(text) ==
  {tok \in SplitSpaces(text) : Len(tok) > 2 /\ tok \notin STOP_WORDS}

\* String.prototype.includes
Includes(s, w) == \E i \in 1..(Len(s) - Len(w) + 1) : HasAt(s, i, w)

\* Scores are rationals in [0,1], kept as a pair <<numerator, denominator>>
Score(n, d) == <<n, d>>

ScoreGE(x, y) == x[1] * y[2] >= y[1] * x[2]

ScoreGT(x, y) == x[1] * y[2] > y[1] * x[2]

Min(a, b) == IF a <= b THEN a ELSE b

\* claimSimilarityScore dividing the overlap by the size of a's token set
claimSimilarityScoreOverFirst(a, b) ==
  LET normalizedA == normalizeClaim(a)
      normalizedB == normalizeClaim(b)
      aTokens == contentTokens(normalizedA)
      bTokens == contentTokens(normalizedB)
      overlap == Cardinality({tok \in aTokens : tok \in bTokens})
  IN  IF normalizedA = <<>> \/ normalizedB = <<>> THEN Score(0, 1)
      ELSE IF normalizedA = normalizedB THEN Score(1, 1)
      ELSE IF Includes(normalizedA, normalizedB) \/ Includes(normalizedB, normalizedA)
           THEN Score(95, 100)
      ELSE IF Cardinality(aTokens) = 0 \/ Cardinality(bTokens) = 0 THEN Score(0, 1)
      ELSE Score(overlap, Cardinality(aTokens))

claimSimilarityScore(a, b) ==
  LET normalizedA == normalizeClaim(a)
      normalizedB == normalizeClaim(b)
      aTokens == contentTokens(normalizedA)
      bTokens == contentTokens(normalizedB)
      overlap == Cardinality({tok \in aTokens : tok \in bTokens})
  IN  IF normalizedA = <<>> \/ normalizedB = <<>> THEN Score(0, 1)
      ELSE IF normalizedA = normalizedB THEN Score(1, 1)
      ELSE IF Includes(normalizedA, normalizedB) \/ Includes(normalizedB, normalizedA)
           THEN Score(95, 100)
      ELSE IF Cardinality(aTokens) = 0 \/ Cardinality(bTokens) = 0 THEN Score(0, 1)
      ELSE Score(overlap, Min(Cardinality(aTokens), Cardinality(bTokens)))


(* ------------------------------------------------------------------ *)
(* Intent classifiers and extraction delay                            *)
(* ------------------------------------------------------------------ *)

\* A pattern is a sequence of elements: a literal character, an optional
\* character out of a set ([- ]? and ,?), or a non-empty run of white space
Lit(w) == [i \in 1..Len(w) |-> [kind |-> "lit", c |-> w[i]]]

Opt(set) == <<[kind |-> "opt", set |-> set]>>

Spaces == <<[kind |-> "spaces"]>>

\* The positions after a match of pat[k..] that starts at s[i]
RECURSIVE MatchEnds(_, _, _, _)
MatchEnds(s, i, pat, k) ==
  IF k > Len(pat) THEN {i}
  ELSE LET e == pat[k]
       IN  IF e.kind = "lit"
           THEN IF i <= Len(s) /\ s[i] = e.c THEN MatchEnds(s, i + 1, pat, k + 1) ELSE {}
           ELSE IF e.kind = "opt"
           THEN MatchEnds(s, i, pat, k + 1)
                \cup (IF i <= Len(s) /\ s[i] \in e.set
                      THEN MatchEnds(s, i + 1, pat, k + 1) ELSE {})
           ELSE UNION {MatchEnds(s, j, pat, k + 1) :
                        j \in {j \in (i + 1)..(Len(s) + 1) :
                                 \A m \in i..(j - 1) : IsSpace(s[m])}}

\* The test of the alternatives without the word boundaries
TestAlternativesAnywhere(s, alts) ==
  LET low == toLowerCase(s)
  IN  \E pat \in alts : \E i \in 1..(Len(low) + 1) : MatchEnds(low, i, pat, 1) # {}

\* /\b(alt1|alt2|...)\b/i.test(s)
TestAlternatives(s, alts) ==
  LET low == toLowerCase(s)
  IN  \E pat \in alts : \E i \in 1..(Len(low) + 1) :
        /\ WordBoundary(low, i)
        /\ \E e \in MatchEnds(low, i, pat, 1) : WordBoundary(low, e)

DISPUTE_PATTERNS ==
  << { Lit(<<"i"," ","d","i","s","a","g","r","e","e">>), Lit(<<"t","h","a","t","'","s"," ","w","r","o","n","g">>), Lit(<<"t","h","a","t"," ","i","s"," ","w","r","o","n","g">>),
       Lit(<<"y","o","u","'","r","e"," ","w","r","o","n","g">>), Lit(<<"n","o","t"," ","t","r","u","e">>), Lit(<<"i","s","n","'","t"," ","t","r","u","e">>) },
     { Lit(<<"i","n","c","o","r","r","e","c","t">>), Lit(<<"f","a","l","s","e">>), Lit(<<"t","h","a","t","'","s"," ","f","a","l","s","e">>), Lit(<<"t","h","a","t"," ","i","s"," ","f","a","l","s","e">>) },
     { Lit(<<"n","o">>) \o Opt({","}) \o Spaces \o Lit(<<"t","h","a","t","'","s">>),
       Lit(<<"n","o">>) \o Opt({","}) \o Spaces \o Lit(<<"t","h","a","t"," ","i","s">>) } >>

VERIFY_PATTERNS ==
  << { Lit(<<"f","a","c","t">>) \o Opt({"-", " "}) \o Lit(<<"c","h","e","c","k">>), Lit(<<"v","e","r","i","f","y">>),
       Lit(<<"c","h","e","c","k"," ","i","f">>) },
     { Lit(<<"i","s"," ","t","h","a","t"," ","t","r","u","e">>), Lit(<<"i","s"," ","t","h","i","s"," ","t","r","u","e">>), Lit(<<"i","s"," ","i","t"," ","t","r","u","e">>),
       Lit(<<"i","s"," ","t","h","a","t"," ","c","o","r","r","e","c","t">>) } >>

isDisputeCue(text) ==
  LET trimmed == trim(text)
  IN  IF trimmed = <<>> THEN FALSE
      ELSE \E n \in 1..Len(DISPUTE_PATTERNS) : TestAlternatives(trimmed, DISPUTE_PATTERNS[n])

isExplicitVerifyCue(text) ==
  LET trimmed == trim(text)
  IN  IF trimmed = <<>> THEN FALSE
      ELSE \E n \in 1..Len(VERIFY_PATTERNS) : TestAlternatives(trimmed, VERIFY_PATTERNS[n])

CONTINUATION_WORDS ==
  { <<"o","f">>, <<"t","h","a","t">>, <<"b","e","c","a","u","s","e">>, <<"a","n","d">>,
    <<"o","r">>, <<"b","u","t">>, <<"w","i","t","h">>, <<"t","o">>,
    <<"f","o","r">>, <<"f","r","o","m">>, <<"a","s">>, <<"p","e","r">>,
    <<"t","h","a","n">> }

QUICK_DELAY_MS == 120

BASE_DELAY_MS == 220

NUMBER_DELAY_MS == 450

CONTINUATION_DELAY_MS == 650

\* lower.split(/\s+/).pop() of a trimmed, non-empty string
RECURSIVE LastWord(_)
LastWord(s) ==
  IF s = <<>> \/ IsSpace(s[Len(s)]) THEN <<>>
  ELSE Append(LastWord(SubSeq(s, 1, Len(s) - 1)), s[Len(s)])

\* getExtractionDelayMs looking up the last word without lower-casing it
getExtractionDelayMsCaseSensitive(text, hasExplicitVerify) ==
  LET trimmed == trim(text)
  IN  IF hasExplicitVerify THEN 0
      ELSE IF trimmed = <<>> THEN BASE_DELAY_MS
      ELSE IF trimmed[Len(trimmed)] \in {".", "!", "?"} THEN QUICK_DELAY_MS
      ELSE IF LastWord(trimmed) \in CONTINUATION_WORDS THEN CONTINUATION_DELAY_MS
      ELSE IF trimmed[Len(trimmed)] \in Digits THEN NUMBER_DELAY_MS
      ELSE BASE_DELAY_MS

getExtractionDelayMs(text, hasExplicitVerify) ==
  LET trimmed == trim(text)
      lower == toLowerCase(trimmed)
  IN  IF hasExplicitVerify THEN 0
      ELSE IF trimmed = <<>> THEN BASE_DELAY_MS
      ELSE IF trimmed[Len(trimmed)] \in {".", "!", "?"} THEN QUICK_DELAY_MS
      ELSE IF LastWord(lower) \in CONTINUATION_WORDS THEN CONTINUATION_DELAY_MS
      ELSE IF trimmed[Len(trimmed)] \in Digits THEN NUMBER_DELAY_MS
      ELSE BASE_DELAY_MS

(* ------------------------------------------------------------------ *)
(* Constants of page.tsx                                              *)
(* ------------------------------------------------------------------ *)

CONTEXT_WINDOW_MS == 300000

CLAIM_TTL_MS == 5 * 60 * 1000

CLAIM_SIMILARITY_THRESHOLD == Score(78, 100)

CLAIM_DUPLICATE_THRESHOLD == Score(92, 100)

MIN_EXTRACT_TEXT_CHARS == 8

\* undefined for an error message
Undefined == "undefined"

\* null and undefined where the code holds a number or an id (lastCheckedAt,
\* inFlightRevision, latestClaimIdRef): ids and revisions start at 1 and
\* Date.now() is positive
None == 0

\* null for a published result; a result is the one-element sequence of
\* what the service answered
NullResult == <<>>

\* No queue item, where the history names the item a handler worked on
NoItem == [id |-> None, claim |-> <<>>, context |-> <<>>, revision |-> None,
           urgent |-> FALSE]

\* No match, for findSimilarRecord
NoMatch == [id |-> None, score |-> <<0, 1>>]

ErrorMessage == "Failed to fact-check this claim."

(* ------------------------------------------------------------------ *)
(* Bounds and the texts the environment draws from                    *)
(* ------------------------------------------------------------------ *)

\* Revisions handed out in a run, over all records (a new record takes one)
MaxRevisions == 3

MaxTicks == 1

\* Claims in one extraction response
MaxBatch == 1

TxAnt == <<"a","n","t"," ","b","a","t"," ","c","o","w">>

TxAntCap == <<"A","n","t"," ","b","a","t"," ","c","o","w",".">>

TxEel == <<"e","e","l"," ","f","o","x"," ","h","e","n">>

TxAntEel == <<"a","n","t"," ","b","a","t"," ","c","o","w"," ","e","e","l"," ","f","o","x"," ","h","e","n">>

\* Claim texts the extraction service and the text box can deliver
ClaimTexts == {TxAnt, TxAntCap, TxEel, TxAntEel}

\* Candidates that are too short or blank
TxShort == <<"a","n","t"," ","b","a","t">>

TxBlank == <<" "," ">>

ShortTexts == {TxShort, TxBlank}

\* A candidate with white space around it
TxAntPadded == <<" ">> \o TxAnt

AllTexts == ClaimTexts \cup ShortTexts \cup {TxAntPadded}

\* claimSimilarityScore and normalizeClaim over the texts, computed once
SimilarityTable == [a \in AllTexts, b \in AllTexts |-> claimSimilarityScore(a, b)]

NormalizedTable == [a \in AllTexts |-> normalizeClaim(a)]

TrimTable == [a \in AllTexts |-> trim(a)]

(* ------------------------------------------------------------------ *)
(* State                                                              *)
(* ------------------------------------------------------------------ *)

VARIABLES
  claimById,          \* claimByIdRef: id -> ClaimRecord, ids in creation order
  claimIndex,         \* claimIndexRef: normalized text -> id
  factCheckQueue,     \* factCheckQueueRef: sequence of QueuedClaim
  latestClaimId,      \* latestClaimIdRef
  isProcessing,       \* isProcessingRef
  factChecks,         \* the published list (React state factChecks)
  workers,            \* items whose verification request is outstanding
  transcriptHistory,  \* transcriptHistoryRef
  pendingText,        \* pendingTextRef
  pendingIntent,      \* pendingIntentRef
  extractTimeout,     \* extractTimeoutRef: the handle of the last timer set
  timers,             \* the timers that are armed: [handle, dueAt]
  timerCount,         \* the number of timers set so far
  extractions,        \* extraction requests awaiting their response
  isListening,        \* listener.isListening
  interimText,        \* listener.interimText
  now,                \* Date.now()
  ticks,              \* number of clock advances so far
  lastEvent,          \* history: the handler that ran last
  applied,            \* history: id -> the revisions whose responses were applied
  batch,              \* history: the fragments received since the last flush
  input,              \* the arguments of a call of a library function
  output,             \* the values the calls have returned so far
  created,            \* history: <<id, revision>> -> the number of items enqueued
  consumed            \* history: <<id, revision>> -> the number of items popped

regVars == <<claimById, claimIndex, factCheckQueue, latestClaimId, isProcessing,
             factChecks, workers, created, consumed>>

pipeVars == <<transcriptHistory, pendingText, pendingIntent, extractTimeout,
              timers, timerCount, extractions, isListening, interimText>>

histVars == <<applied, batch>>

callVars == <<input, output>>

vars == <<claimById, claimIndex, factCheckQueue, latestClaimId, isProcessing,
          factChecks, workers, transcriptHistory, pendingText, pendingIntent,
          extractTimeout, timers, timerCount, extractions, isListening,
          interimText, now, ticks, lastEvent, applied, batch, input, output,
          created, consumed>>

\* The registry, queue and published list as one value, so that a handler
\* can be written as the composition of the functions it calls.  calls is
\* the history of the queueClaimCheck calls made by the running handler,
\* discarded the items it popped and dropped as stale, enqueued the items
\* it passed to enqueueClaim and popped the items it shifted off the queue.
Registry ==
  [ claimById |-> claimById, claimIndex |-> claimIndex,
    factCheckQueue |-> factCheckQueue, latestClaimId |-> latestClaimId,
    isProcessing |-> isProcessing, factChecks |-> factChecks,
    workers |-> workers, calls |-> <<>>, discarded |-> {},
    enqueued |-> <<>>, popped |-> <<>> ]

Ids(s) == DOMAIN s.claimById

(* ------------------------------------------------------------------ *)
(* Published list                                                     *)
(* ------------------------------------------------------------------ *)

\* findIndex that finds nothing
findIndexByIdMissing(seq, id) == 0

\* findIndex((x) => x.id === id), 0 for -1
findIndexById(seq, id) ==
  IF \E i \in 1..Len(seq) : seq[i].id = id
  THEN CHOOSE i \in 1..Len(seq) : seq[i].id = id /\ \A j \in 1..(i - 1) : seq[j].id # id
  ELSE 0

\* seq without its element at index i
RemoveAt(seq, i) == SubSeq(seq, 1, i - 1) \o SubSeq(seq, i + 1, Len(seq))

\* upsertFactCheckLoading that keeps the result and error of the entry
upsertFactCheckLoadingKeepsResult(prev, id, claim, t) ==
  IF findIndexById(prev, id) = 0
  THEN <<[id |-> id, claim |-> claim, result |-> NullResult, isLoading |-> TRUE,
          error |-> Undefined, timestamp |-> t]>> \o prev
  ELSE <<[prev[findIndexById(prev, id)] EXCEPT
            !.claim = claim, !.isLoading = TRUE, !.timestamp = t]>>
       \o RemoveAt(prev, findIndexById(prev, id))

\* upsertFactCheckLoading that updates an existing entry where it is
upsertFactCheckLoadingInPlace(prev, id, claim, t) ==
  IF findIndexById(prev, id) = 0
  THEN <<[id |-> id, claim |-> claim, result |-> NullResult, isLoading |-> TRUE,
          error |-> Undefined, timestamp |-> t]>> \o prev
  ELSE [i \in 1..Len(prev) |->
          IF prev[i].id = id
          THEN [prev[i] EXCEPT !.claim = claim, !.result = NullResult,
                               !.isLoading = TRUE, !.error = Undefined,
                               !.timestamp = t]
          ELSE prev[i]]

upsertFactCheckLoading(prev, id, claim, t) ==
  LET existingIndex == findIndexById(prev, id)
      entry == [id |-> id, claim |-> claim, result |-> NullResult, isLoading |-> TRUE,
                error |-> Undefined, timestamp |-> t]
  IN  IF existingIndex = 0 THEN <<entry>> \o prev
      ELSE LET updated == [prev[existingIndex] EXCEPT
                             !.claim = claim, !.result = NullResult, !.isLoading = TRUE,
                             !.error = Undefined, !.timestamp = entry.timestamp]
           IN  <<updated>> \o RemoveAt(prev, existingIndex)

\* setFactCheckResult writing the result to the newest entry, whatever its id
setFactCheckResultNewest(prev, id, result) ==
  [i \in 1..Len(prev) |->
     IF i = 1
     THEN [prev[i] EXCEPT !.result = result, !.isLoading = FALSE, !.error = Undefined]
     ELSE prev[i]]

setFactCheckResult(prev, id, result) ==
  [i \in 1..Len(prev) |->
     IF prev[i].id = id
     THEN [prev[i] EXCEPT !.result = result, !.isLoading = FALSE, !.error = Undefined]
     ELSE prev[i]]

setFactCheckError(prev, id, message) ==
  [i \in 1..Len(prev) |->
     IF prev[i].id = id
     THEN [prev[i] EXCEPT !.error = message, !.isLoading = FALSE]
     ELSE prev[i]]

(* ------------------------------------------------------------------ *)
(* Claim registry                                                     *)
(* ------------------------------------------------------------------ *)

\* enqueueClaim that appends urgent items like the others
\* enqueueClaim without the removal of the item queued for the same id
enqueueClaimKeepsOld(queue, item) ==
  IF item.urgent THEN <<item>> \o queue ELSE Append(queue, item)

enqueueClaimBack(queue, item) ==
  LET existingIndex == findIndexById(queue, item.id)
      rest == IF existingIndex > 0 THEN RemoveAt(queue, existingIndex) ELSE queue
  IN  Append(rest, item)

enqueueClaim(queue, item) ==
  LET existingIndex == findIndexById(queue, item.id)
      rest == IF existingIndex > 0 THEN RemoveAt(queue, existingIndex) ELSE queue
  IN  IF item.urgent THEN <<item>> \o rest ELSE Append(rest, item)

\* The loop of findSimilarRecord taking the later record on equal scores
RECURSIVE findSimilarFromLatest(_, _, _, _)
findSimilarFromLatest(records, claim, id, best) ==
  IF id \notin DOMAIN records THEN best
  ELSE LET score == SimilarityTable[claim, records[id].claim]
           take == /\ ScoreGE(score, CLAIM_SIMILARITY_THRESHOLD)
                   /\ (best = NoMatch \/ ScoreGE(score, best.score))
       IN  findSimilarFromLatest(records, claim, id + 1,
                                 IF take THEN [id |-> id, score |-> score] ELSE best)

\* The loop of findSimilarRecord over the records id..n in insertion order;
\* best is NoMatch or [id, score]
RECURSIVE findSimilarFrom(_, _, _, _)
findSimilarFrom(records, claim, id, best) ==
  IF id \notin DOMAIN records THEN best
  ELSE LET score == SimilarityTable[claim, records[id].claim]
           take == /\ ScoreGE(score, CLAIM_SIMILARITY_THRESHOLD)
                   /\ (best = NoMatch \/ ScoreGT(score, best.score))
       IN  findSimilarFrom(records, claim, id + 1,
                           IF take THEN [id |-> id, score |-> score] ELSE best)

findSimilarRecord(records, claim) == findSimilarFrom(records, claim, 1, NoMatch)

\* The record queueClaimCheck resolves claim to: NoMatch or [id, score]
MatchOf(s, claim) ==
  LET normalized == NormalizedTable[claim]
  IN  IF normalized \in DOMAIN s.claimIndex
      THEN [id |-> s.claimIndex[normalized], score |-> Score(1, 1)]
      ELSE findSimilarRecord(s.claimById, claim)

\* isRecentDone with the comparison turned around
isRecentDoneInverted(record, t) ==
  /\ record.status = "done"
  /\ record.lastCheckedAt # None
  /\ t - record.lastCheckedAt > CLAIM_TTL_MS

\* isRecentDone counting the end of the window as recent
isRecentDoneInclusive(record, t) ==
  /\ record.status = "done"
  /\ record.lastCheckedAt # None
  /\ t - record.lastCheckedAt <= CLAIM_TTL_MS

isRecentDone(record, t) ==
  /\ record.status = "done"
  /\ record.lastCheckedAt # None
  /\ t - record.lastCheckedAt < CLAIM_TTL_MS

\* The revision bump without the forceCheck and urgent cases
BumpRevisionTextOnly(record, isSameText, forceCheck, urgent) ==
  IF ~isSameText \/ record.status = "done"
  THEN record.revision + 1
  ELSE record.revision

\* The revision bump of queueClaimCheck
BumpRevision(record, isSameText, forceCheck, urgent) ==
  IF ~isSameText \/ forceCheck \/ urgent \/ record.status = "done"
  THEN record.revision + 1
  ELSE record.revision

\* Reindex that leaves the old key in the index
ReindexKeepOld(index, record, normalized) ==
  [k \in DOMAIN index \cup {normalized} |->
     IF k = normalized THEN record.id ELSE index[k]]

\* The index after a matched record takes a new normalized text
Reindex(index, record, normalized) ==
  IF normalized # record.normalized
  THEN [k \in (DOMAIN index \ {record.normalized}) \cup {normalized} |->
          IF k = normalized THEN record.id ELSE index[k]]
  ELSE index

Call(claim, urgent, forceCheck, outcome, id) ==
  [claim |-> claim, urgent |-> urgent, forceCheck |-> forceCheck,
   outcome |-> outcome, id |-> id]

\* queueClaimCheck on a match without the return for work in progress
queueMatchedRequeuesInProgress(s, claim, context, urgent, forceCheck, t, normalized, match, matchedRecord) ==
  IF /\ isRecentDone(matchedRecord, t) /\ ~forceCheck /\ ~urgent
     /\ ScoreGE(match.score, CLAIM_DUPLICATE_THRESHOLD)
  THEN [s EXCEPT !.latestClaimId = match.id,
                 !.calls = Append(@, Call(claim, urgent, forceCheck, "suppressed", match.id))]
  ELSE [s EXCEPT
          !.latestClaimId = match.id,
          !.claimById[match.id] =
             [@ EXCEPT
                !.revision = BumpRevision(matchedRecord,
                                          TrimTable[matchedRecord.claim] = TrimTable[claim],
                                          forceCheck, urgent),
                !.claim = claim, !.lastUpdatedAt = t, !.normalized = normalized,
                !.status = "queued"],
          !.claimIndex = Reindex(@, matchedRecord, normalized),
          !.factChecks = upsertFactCheckLoading(@, match.id, claim, t),
          !.factCheckQueue =
             enqueueClaim(@, [id |-> match.id, claim |-> claim, context |-> context,
                              revision |-> BumpRevision(matchedRecord,
                                             TrimTable[matchedRecord.claim] = TrimTable[claim],
                                             forceCheck, urgent),
                              urgent |-> urgent]),
          !.enqueued =
             Append(@, [id |-> match.id, claim |-> claim, context |-> context,
                        revision |-> BumpRevision(matchedRecord,
                                       TrimTable[matchedRecord.claim] = TrimTable[claim],
                                       forceCheck, urgent),
                        urgent |-> urgent]),
          !.calls = Append(@, Call(claim, urgent, forceCheck, "requeued", match.id))]

\* queueClaimCheck on a match that leaves the record's text as it was
queueMatchedKeepsClaim(s, claim, context, urgent, forceCheck, t, normalized, match, matchedRecord) ==
  IF /\ isRecentDone(matchedRecord, t) /\ ~forceCheck /\ ~urgent
     /\ ScoreGE(match.score, CLAIM_DUPLICATE_THRESHOLD)
  THEN [s EXCEPT !.latestClaimId = match.id,
                 !.calls = Append(@, Call(claim, urgent, forceCheck, "suppressed", match.id))]
  ELSE IF /\ matchedRecord.status # "done"
          /\ TrimTable[matchedRecord.claim] = TrimTable[claim]
          /\ ~forceCheck /\ ~urgent
  THEN [s EXCEPT !.latestClaimId = match.id,
                 !.calls = Append(@, Call(claim, urgent, forceCheck, "inprogress", match.id))]
  ELSE [s EXCEPT
          !.latestClaimId = match.id,
          !.claimById[match.id] =
             [@ EXCEPT
                !.revision = BumpRevision(matchedRecord,
                                          TrimTable[matchedRecord.claim] = TrimTable[claim],
                                          forceCheck, urgent),
                !.lastUpdatedAt = t, !.normalized = normalized,
                !.status = "queued"],
          !.claimIndex = Reindex(@, matchedRecord, normalized),
          !.factChecks = upsertFactCheckLoading(@, match.id, claim, t),
          !.factCheckQueue =
             enqueueClaim(@, [id |-> match.id, claim |-> claim, context |-> context,
                              revision |-> BumpRevision(matchedRecord,
                                             TrimTable[matchedRecord.claim] = TrimTable[claim],
                                             forceCheck, urgent),
                              urgent |-> urgent]),
          !.enqueued =
             Append(@, [id |-> match.id, claim |-> claim, context |-> context,
                        revision |-> BumpRevision(matchedRecord,
                                       TrimTable[matchedRecord.claim] = TrimTable[claim],
                                       forceCheck, urgent),
                        urgent |-> urgent]),
          !.calls = Append(@, Call(claim, urgent, forceCheck, "requeued", match.id))]

\* queueClaimCheck on a match: the two no-op returns, else the re-queue
queueMatched(s, claim, context, urgent, forceCheck, t, normalized, match, matchedRecord) ==
  IF /\ isRecentDone(matchedRecord, t) /\ ~forceCheck /\ ~urgent
     /\ ScoreGE(match.score, CLAIM_DUPLICATE_THRESHOLD)
  THEN [s EXCEPT !.latestClaimId = match.id,
                 !.calls = Append(@, Call(claim, urgent, forceCheck, "suppressed", match.id))]
  ELSE IF /\ matchedRecord.status # "done"
          /\ TrimTable[matchedRecord.claim] = TrimTable[claim]
          /\ ~forceCheck /\ ~urgent
  THEN [s EXCEPT !.latestClaimId = match.id,
                 !.calls = Append(@, Call(claim, urgent, forceCheck, "inprogress", match.id))]
  ELSE [s EXCEPT
          !.latestClaimId = match.id,
          !.claimById[match.id] =
             [@ EXCEPT
                !.revision = BumpRevision(matchedRecord,
                                          TrimTable[matchedRecord.claim] = TrimTable[claim],
                                          forceCheck, urgent),
                !.claim = claim, !.lastUpdatedAt = t, !.normalized = normalized,
                !.status = "queued"],
          !.claimIndex = Reindex(@, matchedRecord, normalized),
          !.factChecks = upsertFactCheckLoading(@, match.id, claim, t),
          !.factCheckQueue =
             enqueueClaim(@, [id |-> match.id, claim |-> claim, context |-> context,
                              revision |-> BumpRevision(matchedRecord,
                                             TrimTable[matchedRecord.claim] = TrimTable[claim],
                                             forceCheck, urgent),
                              urgent |-> urgent]),
          !.enqueued =
             Append(@, [id |-> match.id, claim |-> claim, context |-> context,
                        revision |-> BumpRevision(matchedRecord,
                                       TrimTable[matchedRecord.claim] = TrimTable[claim],
                                       forceCheck, urgent),
                        urgent |-> urgent]),
          !.calls = Append(@, Call(claim, urgent, forceCheck, "requeued", match.id))]

\* queueClaimCheck without a match: a new record with the next id
queueCreated(s, claim, context, urgent, forceCheck, t, normalized, id) ==
  [s EXCEPT
     !.claimById = [k \in Ids(s) \cup {id} |->
                      IF k = id
                      THEN [id |-> id, claim |-> claim, normalized |-> normalized,
                            revision |-> 1, status |-> "queued", lastUpdatedAt |-> t,
                            lastCheckedAt |-> None, inFlightRevision |-> None]
                      ELSE s.claimById[k]],
     !.claimIndex = [k \in DOMAIN s.claimIndex \cup {normalized} |->
                       IF k = normalized THEN id ELSE s.claimIndex[k]],
     !.latestClaimId = id,
     !.factChecks = upsertFactCheckLoading(@, id, claim, t),
     !.factCheckQueue =
        enqueueClaim(@, [id |-> id, claim |-> claim, context |-> context,
                         revision |-> 1, urgent |-> urgent]),
     !.enqueued = Append(@, [id |-> id, claim |-> claim, context |-> context,
                             revision |-> 1, urgent |-> urgent]),
     !.calls = Append(@, Call(claim, urgent, forceCheck, "created", id))]

\* queueClaimCheck once the match is known
queueResolved(s, claim, context, urgent, forceCheck, t, normalized, match) ==
  IF match # NoMatch
  THEN queueMatched(s, claim, context, urgent, forceCheck, t, normalized, match,
                    s.claimById[match.id])
  ELSE queueCreated(s, claim, context, urgent, forceCheck, t, normalized,
                    Cardinality(Ids(s)) + 1)

queueClaimCheck(s, claim, context, urgent, forceCheck, t) ==
  queueResolved(s, claim, context, urgent, forceCheck, t,
                NormalizedTable[claim], MatchOf(s, claim))


(* ------------------------------------------------------------------ *)
(* Verification worker                                                *)
(* ------------------------------------------------------------------ *)

\* The staleness guard that only looks the record up
IsCurrentIfPresent(s, item) == item.id \in Ids(s)

\* The staleness guard of processFactCheck, on pop and on response
IsCurrent(s, item) ==
  item.id \in Ids(s) /\ s.claimById[item.id].revision = item.revision

\* The guard of processQueue without the isProcessing test
processQueueIgnoresBusy(s) == Len(s.factCheckQueue) = 0

\* The guard of processQueue
processQueueReturnsEarly(s) == s.isProcessing \/ Len(s.factCheckQueue) = 0

\* processQueue that leaves the status of the record it sends as it was
RECURSIVE processQueueKeepsStatus(_)
processQueueKeepsStatus(s) ==
  IF processQueueReturnsEarly(s) THEN s
  ELSE LET next == Head(s.factCheckQueue)
           popped == [s EXCEPT !.factCheckQueue = Tail(@), !.popped = Append(@, next)]
       IN  IF ~IsCurrent(popped, next)
           THEN processQueueKeepsStatus([popped EXCEPT !.isProcessing = FALSE,
                                                       !.discarded = @ \cup {next}])
           ELSE [popped EXCEPT
                   !.isProcessing = TRUE,
                   !.claimById[next.id].inFlightRevision = next.revision,
                   !.workers = @ \cup {next}]

\* processQueue that takes the item at the back of the queue
RECURSIVE processQueuePopsLast(_)
processQueuePopsLast(s) ==
  IF processQueueReturnsEarly(s) THEN s
  ELSE LET next == s.factCheckQueue[Len(s.factCheckQueue)]
           popped == [s EXCEPT !.factCheckQueue = SubSeq(@, 1, Len(@) - 1),
                               !.popped = Append(@, next)]
       IN  IF ~IsCurrent(popped, next)
           THEN processQueuePopsLast([popped EXCEPT !.isProcessing = FALSE,
                                                    !.discarded = @ \cup {next}])
           ELSE [popped EXCEPT
                   !.isProcessing = TRUE,
                   !.claimById[next.id].status = "checking",
                   !.claimById[next.id].inFlightRevision = next.revision,
                   !.workers = @ \cup {next}]

\* processQueue up to the await at which it stays suspended.  When
\* processFactCheck returns before its fetch (a stale item), processQueue
\* continues in a microtask, before any other event is handled: it clears
\* isProcessing and calls itself while items are left.  workers holds the
\* items whose request is outstanding.
RECURSIVE processQueue(_)
processQueue(s) ==
  IF processQueueReturnsEarly(s) THEN s
  ELSE LET next == Head(s.factCheckQueue)
           popped == [s EXCEPT !.factCheckQueue = Tail(@), !.popped = Append(@, next)]
       IN  IF ~IsCurrent(popped, next)
           THEN processQueue([popped EXCEPT !.isProcessing = FALSE,
                                            !.discarded = @ \cup {next}])
           ELSE [popped EXCEPT
                   !.isProcessing = TRUE,
                   !.claimById[next.id].status = "checking",
                   !.claimById[next.id].inFlightRevision = next.revision,
                   !.workers = @ \cup {next}]

\* The answer of the verification service to the request made for item
ResultFor(item) == <<item>>

\* applyResult without the staleness guard
applyResultUnguarded(s, item, t) ==
  [s EXCEPT
     !.claimById[item.id].status = "done",
     !.claimById[item.id].lastCheckedAt = t,
     !.claimById[item.id].inFlightRevision = None,
     !.factChecks = setFactCheckResult(@, item.id, ResultFor(item))]

\* processFactCheck after a successful response
applyResult(s, item, t) ==
  IF ~IsCurrent(s, item) THEN s
  ELSE [s EXCEPT
          !.claimById[item.id].status = "done",
          !.claimById[item.id].lastCheckedAt = t,
          !.claimById[item.id].inFlightRevision = None,
          !.factChecks = setFactCheckResult(@, item.id, ResultFor(item))]

\* The catch branch without the staleness guard
applyErrorUnguarded(s, item) ==
  [s EXCEPT
     !.claimById[item.id].status = "done",
     !.claimById[item.id].inFlightRevision = None,
     !.factChecks = setFactCheckError(@, item.id, ErrorMessage)]

\* The catch branch that publishes the error and leaves the record as it is
applyErrorKeepsStatus(s, item) ==
  IF ~IsCurrent(s, item) THEN s
  ELSE [s EXCEPT !.factChecks = setFactCheckError(@, item.id, ErrorMessage)]

\* processFactCheck's catch branch
applyError(s, item) ==
  IF ~IsCurrent(s, item) THEN s
  ELSE [s EXCEPT
          !.claimById[item.id].status = "done",
          !.claimById[item.id].inFlightRevision = None,
          !.factChecks = setFactCheckError(@, item.id, ErrorMessage)]

\* processQueue after its await without the call to itself
processQueueResumeStops(s, item) ==
  [s EXCEPT !.isProcessing = FALSE, !.workers = @ \ {item}]

\* processQueue after its await putting the item back into the queue
processQueueResumeRetries(s, item) ==
  processQueue([s EXCEPT !.isProcessing = FALSE, !.workers = @ \ {item},
                         !.factCheckQueue = Append(@, item)])

\* processQueue after its await, when processFactCheck(item) has returned
processQueueResume(s, item) ==
  LET s1 == [s EXCEPT !.isProcessing = FALSE, !.workers = @ \ {item}]
  IN  IF Len(s1.factCheckQueue) > 0 THEN processQueue(s1) ELSE s1

(* ------------------------------------------------------------------ *)
(* Context window                                                     *)
(* ------------------------------------------------------------------ *)

RECURSIVE JoinSpace(_)
JoinSpace(texts) ==
  IF texts = <<>> THEN <<>>
  ELSE IF Len(texts) = 1 THEN texts[1]
  ELSE texts[1] \o <<" ">> \o JoinSpace(Tail(texts))

TextsOf(chunks) == [i \in 1..Len(chunks) |-> chunks[i].text]

\* getRecentContext without the filter on the age of the fragments
getRecentContextAll(history, t) == JoinSpace(TextsOf(history))

getRecentContext(history, t) ==
  JoinSpace(TextsOf(SelectSeq(history, LAMBDA chunk : t - chunk.timestamp < CONTEXT_WINDOW_MS)))

(* ------------------------------------------------------------------ *)
(* Handlers                                                           *)
(* ------------------------------------------------------------------ *)

RECURSIVE SumRevisions(_, _)
SumRevisions(records, id) ==
  IF id \notin DOMAIN records THEN 0
  ELSE records[id].revision + SumRevisions(records, id + 1)

WithinBounds(s) == SumRevisions(s.claimById, 1) <= MaxRevisions

\* The key of a work item in the history
KeyOf(item) == <<item.id, item.revision>>

CountOf(counts, key) == IF key \in DOMAIN counts THEN counts[key] ELSE 0

\* counts with one more for each of the items
RECURSIVE Counted(_, _)
Counted(counts, items) ==
  IF items = <<>> THEN counts
  ELSE Counted([key \in DOMAIN counts \cup {KeyOf(Head(items))} |->
                  IF key = KeyOf(Head(items)) THEN CountOf(counts, key) + 1
                  ELSE counts[key]],
               Tail(items))

\* The registry after a handler, and the handler's entry in the history
Commit(s, event) ==
  /\ WithinBounds(s)
  /\ created' = Counted(created, s.enqueued)
  /\ consumed' = Counted(consumed, s.popped)
  /\ claimById' = s.claimById
  /\ claimIndex' = s.claimIndex
  /\ factCheckQueue' = s.factCheckQueue
  /\ latestClaimId' = s.latestClaimId
  /\ isProcessing' = s.isProcessing
  /\ factChecks' = s.factChecks
  /\ workers' = s.workers
  /\ lastEvent' = event

Event(op, item) == [op |-> op, item |-> item]

\* handleTextSubmit with textInput = text
HandleTextSubmit(text) ==
  /\ TrimTable[text] # <<>>
  /\ Commit(processQueue(queueClaimCheck(Registry, TrimTable[text],
                                         getRecentContext(transcriptHistory, now),
                                         TRUE, TRUE, now)),
            Event("queue", NoItem))
  /\ UNCHANGED <<pipeVars, histVars, now, ticks, callVars>>

\* The revisions applied so far for record id, oldest first
AppliedTo(id) == IF id \in DOMAIN applied THEN applied[id] ELSE <<>>

\* History of a response: when it is applied, its revision is appended to
\* the revisions applied for the record
Record(item, current) ==
  applied' = IF current
             THEN [id \in DOMAIN applied \cup {item.id} |->
                     IF id = item.id THEN Append(AppliedTo(id), item.revision)
                     ELSE applied[id]]
             ELSE applied

\* The verification service answers the request for item with a result;
\* processFactCheck returns and processQueue continues
FetchOk(item) ==
  /\ item \in workers
  /\ LET s1 == applyResult(Registry, item, now)
         s2 == processQueueResume(s1, item)
     IN  /\ Commit(s2, Event(IF IsCurrent(Registry, item) THEN "result" ELSE "stale", item))
         /\ Record(item, IsCurrent(Registry, item))
  /\ UNCHANGED <<pipeVars, batch, now, ticks, callVars>>

\* The request fails: a network error or a response that is not ok
FetchFail(item) ==
  /\ item \in workers
  /\ LET s1 == applyError(Registry, item)
         s2 == processQueueResume(s1, item)
     IN  /\ Commit(s2, Event(IF IsCurrent(Registry, item) THEN "error" ELSE "stale", item))
         /\ Record(item, IsCurrent(Registry, item))
  /\ UNCHANGED <<pipeVars, batch, now, ticks, callVars>>

\* The body the verification route answers when its 45 s timer aborts the
\* call of the language model: a verdict, with status ok
TimeoutResult == <<"unverified", "Request timed out - try again">>

\* What the verification route can do with a request
RouteOutcomes == {"answered", "aborted", "failed"}

\* The response of the verification route to the request made for item
factCheckRoute(item, outcome) ==
  CASE outcome = "answered" -> [ok |-> TRUE, body |-> ResultFor(item)]
    [] outcome = "aborted"  -> [ok |-> TRUE, body |-> TimeoutResult]
    [] outcome = "failed"   -> [ok |-> FALSE, body |-> NullResult]

\* processFactCheck after its fetch has returned response
applyResponse(s, item, t, response) ==
  IF ~response.ok THEN applyError(s, item)
  ELSE IF ~IsCurrent(s, item) THEN s
  ELSE [s EXCEPT
          !.claimById[item.id].status = "done",
          !.claimById[item.id].lastCheckedAt = t,
          !.claimById[item.id].inFlightRevision = None,
          !.factChecks = setFactCheckResult(@, item.id, response.body)]

\* What happened to the request for item
OutcomeEvent(item, outcome, current) ==
  Event(IF ~current THEN "stale"
        ELSE CASE outcome = "answered" -> "result"
               [] outcome = "aborted"  -> "timeout"
               [] outcome = "failed"   -> "error",
        item)

\* The verification route responds to the request for item: the language
\* model answers, the route's timer aborts the call, or the route fails;
\* processFactCheck returns and processQueue continues
RouteResponds(item, outcome) ==
  /\ item \in workers
  /\ Commit(processQueueResume(applyResponse(Registry, item, now,
                                             factCheckRoute(item, outcome)), item),
            OutcomeEvent(item, outcome, IsCurrent(Registry, item)))
  /\ Record(item, IsCurrent(Registry, item))
  /\ UNCHANGED <<pipeVars, batch, now, ticks, callVars>>

\* Time passes: just less than the freshness window, or all of it
TickSteps == {CLAIM_TTL_MS - 1, CLAIM_TTL_MS}

Tick(d) ==
  /\ ticks < MaxTicks
  /\ now' = now + d
  /\ ticks' = ticks + 1
  /\ lastEvent' = Event("tick", NoItem)
  /\ UNCHANGED <<regVars, pipeVars, histVars, callVars>>


(* ------------------------------------------------------------------ *)
(* Extraction scheduler and extraction responses                      *)
(* ------------------------------------------------------------------ *)

MaxFragments == 2

FrCats == <<"c","a","t","s">>

FrEatFish == <<"e","a","t"," ","f","i","s","h">>

FrWrong == <<"t","h","a","t","'","s"," ","w","r","o","n","g">>

FrVerify == <<"v","e","r","i","f","y">>

\* Final fragments the speech service can deliver (trimmed, not blank)
FragmentTexts == {FrCats, FrEatFish, FrWrong, FrVerify}

DisputeTable == [f \in FragmentTexts |-> isDisputeCue(f)]

VerifyTable == [f \in FragmentTexts |-> isExplicitVerifyCue(f)]

NoIntent == [hasDispute |-> FALSE, hasExplicitVerify |-> FALSE]

\* extractTimeoutRef.current = null
NoTimer == 0

\* doExtractClaims up to its fetch: the extraction requests outstanding
\* after the call
doExtractClaims(reqs, textToProcess, intent, history, t) ==
  LET trimmed == trim(textToProcess)
  IN  IF Len(trimmed) < MIN_EXTRACT_TEXT_CHARS /\ ~intent.hasDispute
         /\ ~intent.hasExplicitVerify
      THEN reqs
      ELSE Append(reqs, [newText |-> textToProcess,
                         recentContext |-> getRecentContext(history, t),
                         intent |-> intent])

\* clearTimeout that cancels nothing
clearTimeoutKeeps(armed, handle) == armed

\* clearTimeout(handle): a timer that has fired or was cleared is not armed
clearTimeout(armed, handle) == {timer \in armed : timer.handle # handle}

\* The refs of the extraction scheduler
Scheduler ==
  [pendingText |-> pendingText, pendingIntent |-> pendingIntent,
   extractTimeout |-> extractTimeout, timers |-> timers, timerCount |-> timerCount]

\* extractAndProcessClaims(newText) at time t
extractAndProcessClaims(p, newText, t) ==
  LET hasDispute == DisputeTable[newText]
      hasExplicitVerify == VerifyTable[newText]
      intent == [hasDispute |-> p.pendingIntent.hasDispute \/ hasDispute,
                 hasExplicitVerify |-> p.pendingIntent.hasExplicitVerify
                                         \/ hasExplicitVerify]
      cleared == IF p.extractTimeout # NoTimer
                 THEN clearTimeout(p.timers, p.extractTimeout)
                 ELSE p.timers
      delayMs == getExtractionDelayMs(newText, intent.hasExplicitVerify)
      handle == p.timerCount + 1
  IN  [pendingText |-> IF p.pendingText # <<>>
                       THEN p.pendingText \o <<" ">> \o newText
                       ELSE newText,
       pendingIntent |-> intent,
       extractTimeout |-> handle,
       timers |-> cleared \cup {[handle |-> handle, dueAt |-> t + delayMs]},
       timerCount |-> handle]

\* The scheduler after an extractAndProcessClaims call or a flush
CommitScheduler(p) ==
  /\ pendingText' = p.pendingText
  /\ pendingIntent' = p.pendingIntent
  /\ extractTimeout' = p.extractTimeout
  /\ timers' = p.timers
  /\ timerCount' = p.timerCount

\* handleTranscript: the context window, then extractAndProcessClaims
HandleTranscript(text) ==
  LET pushed == Append(transcriptHistory, [text |-> text, timestamp |-> now])
  IN  /\ isListening
      /\ timerCount < MaxFragments
      /\ transcriptHistory' =
           SelectSeq(pushed, LAMBDA chunk : now - chunk.timestamp < CONTEXT_WINDOW_MS)
      /\ CommitScheduler(extractAndProcessClaims(Scheduler, text, now))
      /\ batch' = Append(batch, text)
      /\ UNCHANGED <<regVars, applied, extractions, isListening, now, ticks, callVars>>

\* Messages of the speech service: transcripts as sent, not yet trimmed
MsgBlank == <<" ", " ">>

MsgPadded == <<" ", "c", "a", "t", "s", " ">>

MessageTexts == FragmentTexts \cup {MsgBlank, MsgPadded}

MessageTrimTable == [text \in MessageTexts |-> trim(text)]

\* What a message is: blank, an interim result or a final fragment
MessageKind(text, isFinal) ==
  IF MessageTrimTable[text] = <<>> THEN "blank"
  ELSE IF isFinal THEN "fragment" ELSE "interim"

\* onmessage that hands every transcript that is not blank to onTranscript
deliversAnyTranscript(text, isFinal) == MessageTrimTable[text] # <<>>

\* socket.onmessage calls onTranscript: the text is not blank and is_final
deliversTranscript(text, isFinal) == MessageTrimTable[text] # <<>> /\ isFinal

\* socket.onmessage for a Results message with this transcript
OnMessage(text, isFinal) ==
  /\ isListening
  /\ lastEvent' = Event(MessageKind(text, isFinal), NoItem)
  /\ IF deliversTranscript(text, isFinal)
     THEN /\ interimText' = <<>>
          /\ HandleTranscript(MessageTrimTable[text])
     ELSE /\ interimText' = IF MessageTrimTable[text] # <<>>
                            THEN MessageTrimTable[text]
                            ELSE interimText
          /\ UNCHANGED <<regVars, histVars, transcriptHistory, pendingText,
                         pendingIntent, extractTimeout, timers, timerCount,
                         extractions, isListening, now, ticks, callVars>>

\* The callback of the debounce timer without the reset of the pending text
TimerFireKeepsPending(timer) ==
  /\ timer \in timers
  /\ now' = IF now < timer.dueAt THEN timer.dueAt ELSE now
  /\ timers' = timers \ {timer}
  /\ pendingIntent' = NoIntent
  /\ extractions' = doExtractClaims(extractions, pendingText, pendingIntent,
                                    transcriptHistory, now')
  /\ batch' = <<>>
  /\ lastEvent' = Event("timer", NoItem)
  /\ UNCHANGED <<regVars, applied, transcriptHistory, extractTimeout, timerCount,
                 isListening, interimText, ticks, callVars, pendingText>>

\* The callback of the debounce timer
TimerFire(timer) ==
  /\ timer \in timers
  /\ now' = IF now < timer.dueAt THEN timer.dueAt ELSE now
  /\ timers' = timers \ {timer}
  /\ pendingText' = <<>>
  /\ pendingIntent' = NoIntent
  /\ extractions' = doExtractClaims(extractions, pendingText, pendingIntent,
                                    transcriptHistory, now')
  /\ batch' = <<>>
  /\ lastEvent' = Event("timer", NoItem)
  /\ UNCHANGED <<regVars, applied, transcriptHistory, extractTimeout, timerCount,
                 isListening, interimText, ticks, callVars>>

StartListening ==
  /\ ~isListening
  /\ isListening' = TRUE
  /\ interimText' = <<>>
  /\ lastEvent' = Event("start", NoItem)
  /\ UNCHANGED <<regVars, histVars, transcriptHistory, pendingText, pendingIntent,
                 extractTimeout, timers, timerCount, extractions, now, ticks, callVars>>

\* The stop effect without clearTimeout
StopListeningKeepsTimer ==
  /\ isListening
  /\ isListening' = FALSE
  /\ interimText' = <<>>
  /\ lastEvent' = Event("stop", NoItem)
  /\ IF trim(pendingText) = <<>>
     THEN UNCHANGED <<pendingText, pendingIntent, extractTimeout, timers,
                      extractions, batch>>
     ELSE /\ timers' = timers
          /\ extractTimeout' = NoTimer
          /\ pendingText' = <<>>
          /\ pendingIntent' = NoIntent
          /\ extractions' = doExtractClaims(extractions, pendingText, pendingIntent,
                                            transcriptHistory, now)
          /\ batch' = <<>>
  /\ UNCHANGED <<regVars, applied, transcriptHistory, timerCount, now, ticks, callVars>>

\* Listening stops and the effect on listener.isListening runs
StopListening ==
  /\ isListening
  /\ isListening' = FALSE
  /\ interimText' = <<>>
  /\ lastEvent' = Event("stop", NoItem)
  /\ IF trim(pendingText) = <<>>
     THEN UNCHANGED <<pendingText, pendingIntent, extractTimeout, timers,
                      extractions, batch>>
     ELSE /\ timers' = IF extractTimeout # NoTimer
                       THEN clearTimeout(timers, extractTimeout)
                       ELSE timers
          /\ extractTimeout' = NoTimer
          /\ pendingText' = <<>>
          /\ pendingIntent' = NoIntent
          /\ extractions' = doExtractClaims(extractions, pendingText, pendingIntent,
                                            transcriptHistory, now)
          /\ batch' = <<>>
  /\ UNCHANGED <<regVars, applied, transcriptHistory, timerCount, now, ticks, callVars>>

\* The claims.forEach in which only a dispute makes a candidate urgent
RECURSIVE queueCandidatesDisputeOnly(_, _, _, _, _, _, _)
queueCandidatesDisputeOnly(s, claims, k, forcedSet, intent, context, t) ==
  IF k > Len(claims) THEN s
  ELSE LET claim == claims[k]
           forceCheck == intent.hasExplicitVerify \/ claim \in forcedSet
           urgent == intent.hasDispute
       IN  queueCandidatesDisputeOnly(queueClaimCheck(s, claim, context, urgent, forceCheck, t),
                                      claims, k + 1, forcedSet, intent, context, t)

\* The claims.forEach of doExtractClaims over claims[k..]
RECURSIVE queueCandidates(_, _, _, _, _, _, _)
queueCandidates(s, claims, k, forcedSet, intent, context, t) ==
  IF k > Len(claims) THEN s
  ELSE LET claim == claims[k]
           forceCheck == intent.hasExplicitVerify \/ claim \in forcedSet
           urgent == intent.hasDispute \/ forceCheck
       IN  queueCandidates(queueClaimCheck(s, claim, context, urgent, forceCheck, t),
                           claims, k + 1, forcedSet, intent, context, t)

\* The fallback that ignores the cue
queueLatestIgnored(s, intent, context, t) == s

\* The fallback of doExtractClaims to the latest claim
queueLatest(s, intent, context, t) ==
  IF (intent.hasDispute \/ intent.hasExplicitVerify)
     /\ s.latestClaimId # None /\ s.latestClaimId \in Ids(s)
  THEN queueClaimCheck(s, s.claimById[s.latestClaimId].claim, context, TRUE, TRUE, t)
  ELSE s

\* doExtractClaims: processQueue when a claim was queued
processQueueIfQueued(s) == IF Len(s.calls) > 0 THEN processQueue(s) ELSE s

\* doExtractClaims after an ok response {claims, forcedClaims}
extractResponse(s, intent, claims, forcedSet, context, t) ==
  processQueueIfQueued(
    IF Len(claims) > 0
    THEN queueCandidates(s, claims, 1, forcedSet, intent, context, t)
    ELSE queueLatest(s, intent, context, t))

\* Sequences over set of length at most n
RECURSIVE SeqsUpTo(_, _)
SeqsUpTo(set, n) ==
  IF n = 0 THEN {<<>>}
  ELSE LET shorter == SeqsUpTo(set, n - 1)
       IN  shorter \cup {Append(q, x) : q \in {q \in shorter : Len(q) = n - 1}, x \in set}

Range(seq) == {seq[i] : i \in 1..Len(seq)}

\* The response handler of doExtractClaims, for a request flushed with intent
ExtractHandled(intent, claims, forcedSet) ==
  LET s == extractResponse(Registry, intent, claims, forcedSet,
                           getRecentContext(transcriptHistory, now), now)
  IN  Commit(s, Event("queue", NoItem))

\* The extraction service answers request i with {claims, forcedClaims}
ExtractOk(i, claims, forcedSet) ==
  /\ i \in 1..Len(extractions)
  /\ forcedSet \subseteq Range(claims)
  /\ extractions' = RemoveAt(extractions, i)
  /\ ExtractHandled(extractions[i].intent, claims, forcedSet)
  /\ UNCHANGED <<histVars, transcriptHistory, pendingText, pendingIntent,
                 extractTimeout, timers, timerCount, isListening, interimText,
                 now, ticks, callVars>>

\* A failed round that also resets the worker's busy flag
extractFailedResetsWorker(s) == [s EXCEPT !.isProcessing = FALSE]

\* doExtractClaims when the response is not ok (it returns) or when fetch
\* or response.json() throws (the catch logs)
extractFailed(s) == s

\* Request i fails: a response that is not ok, a network error, a body
\* that does not parse
ExtractFail(i) ==
  /\ i \in 1..Len(extractions)
  /\ extractions' = RemoveAt(extractions, i)
  /\ Commit(extractFailed(Registry), Event("extractfail", NoItem))
  /\ UNCHANGED <<histVars, transcriptHistory, pendingText, pendingIntent,
                 extractTimeout, timers, timerCount, isListening, interimText,
                 now, ticks, callVars>>

\* The filter of the extraction route that keeps every candidate
routeFilterKeepsAll(claims) == claims

\* The extraction route: the claims of the model's answer that it returns
routeFilter(claims) == SelectSeq(claims, LAMBDA c : Len(TrimTable[c]) > 10)

Intents == [hasDispute : BOOLEAN, hasExplicitVerify : BOOLEAN]

\* An extraction response arrives for some batch that was flushed with
\* intent; the scheduler that flushed it is left out
ExtractionArrives(intent, claims, forcedSet) ==
  /\ forcedSet \subseteq Range(claims)
  /\ ExtractHandled(intent, claims, forcedSet)
  /\ UNCHANGED <<pipeVars, histVars, now, ticks, callVars>>

(* ------------------------------------------------------------------ *)
(* Specifications                                                     *)
(* ------------------------------------------------------------------ *)

\* The page after construction
Constructed ==
  /\ claimById = <<>>
  /\ claimIndex = <<>>
  /\ factCheckQueue = <<>>
  /\ latestClaimId = None
  /\ isProcessing = FALSE
  /\ factChecks = <<>>
  /\ workers = {}
  /\ transcriptHistory = <<>>
  /\ pendingText = <<>>
  /\ pendingIntent = NoIntent
  /\ extractTimeout = NoTimer
  /\ timers = {}
  /\ timerCount = 0
  /\ extractions = <<>>
  /\ isListening = FALSE
  /\ interimText = <<>>
  /\ now = 1
  /\ ticks = 0
  /\ lastEvent = Event("init", NoItem)
  /\ applied = <<>>
  /\ batch = <<>>
  /\ created = <<>>
  /\ consumed = <<>>

Init ==
  /\ Constructed
  /\ input = <<>>
  /\ output = <<>>

\* The extraction route answers {claims}, without forcedClaims
NoForced == {}

\* Registry, queue and worker: claims arrive from the text box and from
\* extraction responses of batches flushed with any intent
Next ==
  \/ \E text \in ClaimTexts : HandleTextSubmit(text)
  \/ \E intent \in Intents : \E claims \in SeqsUpTo(ClaimTexts, MaxBatch) :
       ExtractionArrives(intent, claims, NoForced)
  \/ \E item \in workers : FetchOk(item)
  \/ \E item \in workers : FetchFail(item)

Spec == Init /\ [][Next]_vars

\* The verification service answers every request, with a result or a failure
VerificationReturns == \E item \in workers : FetchOk(item) \/ FetchFail(item)

\* Spec with every verification call returning eventually
SpecLive == Init /\ [][Next]_vars /\ WF_vars(VerificationReturns)

\* The whole pipeline: the listener delivers final fragments, the scheduler
\* batches them, the extraction service answers, the worker verifies
NextPipeline ==
  \/ StartListening
  \/ StopListening
  \/ \E text \in FragmentTexts : OnMessage(text, TRUE)
  \/ \E timer \in timers : TimerFire(timer)
  \/ \E i \in 1..Len(extractions) : \E claims \in SeqsUpTo(ClaimTexts, MaxBatch) :
       ExtractOk(i, claims, NoForced)
  \/ \E i \in 1..Len(extractions) : ExtractFail(i)
  \/ \E item \in workers : FetchOk(item)
  \/ \E item \in workers : FetchFail(item)

SpecPipeline == Init /\ [][NextPipeline]_vars


\* The extraction route answers a batch flushed with intent: the language
\* model proposes raw, the route filters it, the client handles the rest
RouteAnswers(intent, raw) == ExtractionArrives(intent, routeFilter(raw), NoForced)

\* Registry, queue and worker, with the verification route between the
\* worker and the language model
NextVerification ==
  \/ \E text \in ClaimTexts : HandleTextSubmit(text)
  \/ \E intent \in Intents : \E claims \in SeqsUpTo(ClaimTexts, MaxBatch) :
       ExtractionArrives(intent, claims, NoForced)
  \/ \E item \in workers : \E outcome \in RouteOutcomes : RouteResponds(item, outcome)

SpecVerification == Init /\ [][NextVerification]_vars

\* The whole pipeline with extraction responses {claims, forcedClaims}
NextFlags ==
  \/ StartListening
  \/ StopListening
  \/ \E text \in FragmentTexts : OnMessage(text, TRUE)
  \/ \E timer \in timers : TimerFire(timer)
  \/ \E i \in 1..Len(extractions) : \E claims \in SeqsUpTo(ClaimTexts, MaxBatch) :
       \E forcedSet \in SUBSET Range(claims) : ExtractOk(i, claims, forcedSet)
  \/ \E i \in 1..Len(extractions) : ExtractFail(i)
  \/ \E item \in workers : FetchOk(item)
  \/ \E item \in workers : FetchFail(item)

SpecFlags == Init /\ [][NextFlags]_vars

\* The claims typed into the text box while the context window is watched
SubmittedTexts == {TxAnt}

\* The fragments that arrive while the context window is watched
ContextFragments == {FrCats, FrEatFish}

\* The context window and its readers while the clock advances: fragments
\* arrive, the timer sends extraction requests (which stay outstanding),
\* claims are typed into the text box and the worker verifies them
NextContext ==
  \/ StartListening
  \/ \E text \in ContextFragments : OnMessage(text, TRUE)
  \/ \E timer \in timers : TimerFire(timer)
  \/ \E text \in SubmittedTexts : HandleTextSubmit(text)
  \/ \E item \in workers : FetchOk(item)
  \/ \E d \in TickSteps : Tick(d)

SpecContext == Init /\ [][NextContext]_vars

\* Registry, queue and worker while the clock advances
NextClock ==
  \/ \E text \in ClaimTexts : HandleTextSubmit(text)
  \/ \E intent \in Intents : \E claims \in SeqsUpTo(ClaimTexts, MaxBatch) :
       ExtractionArrives(intent, claims, NoForced)
  \/ \E item \in workers : FetchOk(item)
  \/ \E item \in workers : FetchFail(item)
  \/ \E d \in TickSteps : Tick(d)

SpecClock == Init /\ [][NextClock]_vars

\* Candidates of any length: typed into the text box and proposed by the
\* language model behind the extraction route
NextCandidates ==
  \/ \E text \in AllTexts : HandleTextSubmit(text)
  \/ \E intent \in Intents : \E raw \in SeqsUpTo(AllTexts, MaxBatch) :
       RouteAnswers(intent, raw)
  \/ \E item \in workers : FetchOk(item)
  \/ \E item \in workers : FetchFail(item)

SpecCandidates == Init /\ [][NextCandidates]_vars

\* Listener and scheduler: the speech service sends blank, interim and final
\* transcripts; the extraction requests stay outstanding
NextListener ==
  \/ StartListening
  \/ StopListening
  \/ \E text \in MessageTexts : \E isFinal \in BOOLEAN : OnMessage(text, isFinal)
  \/ \E timer \in timers : TimerFire(timer)

SpecListener == Init /\ [][NextListener]_vars

(* ------------------------------------------------------------------ *)
(* Calls of the library functions                                     *)
(* ------------------------------------------------------------------ *)

\* The strings made of at most n of the pieces
RECURSIVE Concats(_, _)
Concats(pieces, n) ==
  IF n = 0 THEN {<<>>}
  ELSE LET shorter == Concats(pieces, n - 1)
       IN  shorter \cup {s \o p : s \in shorter, p \in pieces}

MaxPieces == 3

\* Pieces of the arguments of normalizeClaim: white space, punctuation, a
\* letter, a unit word and parts of unit words
NormalizePieces ==
  { <<" ">>, <<".">>, <<"a">>, <<"p","e","r">>, <<"c","e","n","t">>,
    <<"D","o","l","l","a","r","s">>, <<"m","i","l","l">>, <<"i","o","n">> }

NormalizeInputs == Concats(NormalizePieces, MaxPieces)

MaxWords == 2

\* Pieces of the arguments of claimSimilarityScore: words with and without
\* leading space, a stop word, a capitalised and punctuated word
ScorePieces ==
  { <<"a","n","t">>, <<" ","b","a","t">>, <<" ","t","h","e">>,
    <<"A","n","t",".">>, <<" ","c","o","w">>, <<".">> }

ScoreInputs == Concats(ScorePieces, MaxWords)

\* A caller holds the string claim
InitNormalize ==
  /\ Constructed
  /\ \E claim \in NormalizeInputs : input = <<claim>>
  /\ output = <<>>

\* normalizeClaim(claim)
CallNormalize ==
  /\ Len(input) = 1
  /\ output = <<>>
  /\ output' = <<normalizeClaim(input[1])>>
  /\ UNCHANGED <<regVars, pipeVars, histVars, now, ticks, lastEvent, input>>

\* normalizeClaim applied to the value the previous call returned
CallNormalizeAgain ==
  /\ Len(input) = 1
  /\ Len(output) = 1
  /\ output' = Append(output, normalizeClaim(output[1]))
  /\ UNCHANGED <<regVars, pipeVars, histVars, now, ticks, lastEvent, input>>

NextNormalize == CallNormalize \/ CallNormalizeAgain

SpecNormalize == InitNormalize /\ [][NextNormalize]_vars

\* The claims of the test "detects near-duplicate claims"
TestFundingLong ==
  <<"I","n","d","i","g","e","n","o","u","s"," ","A","u","s","t","r","a","l",
    "i","a","n","s"," ","r","e","c","e","i","v","e"," ","t","w","i","c","e",
    " ","a","s"," ","m","u","c","h"," ","f","u","n","d","i","n","g"," ","a",
    "s"," ","w","h","i","t","e"," ","A","u","s","t","r","a","l","i","a","n",
    "s"," ","p","e","r"," ","c","a","p","i","t","a">>

TestFundingShort ==
  <<"T","h","e","y"," ","r","e","c","e","i","v","e"," ","2","x"," ","f","u",
    "n","d","i","n","g"," ","p","e","r"," ","c","a","p","i","t","a">>

TestCats ==
  <<"C","a","t","s"," ","a","r","e"," ","m","a","m","m","a","l","s">>

TestSky ==
  <<"T","h","e"," ","s","k","y"," ","i","s"," ","b","l","u","e">>

TestPairs == {<<TestFundingLong, TestFundingShort>>, <<TestCats, TestSky>>}

\* The pairs of arguments of claimSimilarityScore
ScorePairs == (ScoreInputs \X ScoreInputs) \cup TestPairs

\* A caller holds the strings a and b
InitScore ==
  /\ Constructed
  /\ input \in ScorePairs
  /\ output = <<>>

\* claimSimilarityScore(a, b)
CallScore ==
  /\ Len(input) = 2
  /\ output = <<>>
  /\ output' = <<claimSimilarityScore(input[1], input[2])>>
  /\ UNCHANGED <<regVars, pipeVars, histVars, now, ticks, lastEvent, input>>

\* claimSimilarityScore(b, a)
CallScoreSwapped ==
  /\ Len(input) = 2
  /\ Len(output) = 1
  /\ output' = Append(output, claimSimilarityScore(input[2], input[1]))
  /\ UNCHANGED <<regVars, pipeVars, histVars, now, ticks, lastEvent, input>>

NextScore == CallScore \/ CallScoreSwapped

SpecScore == InitScore /\ [][NextScore]_vars

(* ------------------------------------------------------------------ *)

\* Pieces of the arguments of getExtractionDelayMs: white space, terminal
\* punctuation, a digit, a capitalised continuation word and another word
DelayPieces == { <<" ">>, <<".">>, <<"5">>, <<"O","f">>, <<"c","a","t">> }

DelayInputs == Concats(DelayPieces, MaxWords)

\* The fragments of the test "adjusts extraction delay for incomplete phrases"
TestPunctuated == <<"U","n","e","m","p","l","o","y","m","e","n","t"," ","i","s"," ","5","%",".">>

TestTrailingNumber == <<"U","n","e","m","p","l","o","y","m","e","n","t"," ","i","s"," ","5">>

\* The pairs of fragments whose delays are compared
DelayPairs == (DelayInputs \X DelayInputs) \cup {<<TestPunctuated, TestTrailingNumber>>}

\* A caller holds two fragments and the explicit-verify flag
InitDelay ==
  /\ Constructed
  /\ \E pair \in DelayPairs : \E hasExplicitVerify \in BOOLEAN :
       input = <<pair[1], pair[2], hasExplicitVerify>>
  /\ output = <<>>

\* getExtractionDelayMs(first fragment, hasExplicitVerify)
CallDelay ==
  /\ Len(input) = 3
  /\ output = <<>>
  /\ output' = <<getExtractionDelayMs(input[1], input[3])>>
  /\ UNCHANGED <<regVars, pipeVars, histVars, now, ticks, lastEvent, input>>

\* getExtractionDelayMs(second fragment, hasExplicitVerify)
CallDelayOther ==
  /\ Len(input) = 3
  /\ Len(output) = 1
  /\ output' = Append(output, getExtractionDelayMs(input[2], input[3]))
  /\ UNCHANGED <<regVars, pipeVars, histVars, now, ticks, lastEvent, input>>

NextDelay == CallDelay \/ CallDelayOther

SpecDelay == InitDelay /\ [][NextDelay]_vars

(* ------------------------------------------------------------------ *)

\* Pieces of the arguments of the intent classifiers: parts of cue phrases,
\* prefixes and suffixes that make longer words of them, and white space
CuePieces ==
  { <<"F","a","c","t">>, <<"-">>, <<" ">>, <<"c","h","e","c","k">>,
    <<"e","r","s">>, <<"u","n">>, <<"V","e","r","i","f","y">>,
    <<"N","o","t"," ","t","r","u","e">>, <<"n","o",",">>,
    <<"t","h","a","t","'","s">> }

\* The texts of the test "flags explicit verify and dispute cues"
TestFactCheckThat == <<"f","a","c","t"," ","c","h","e","c","k"," ","t","h","a","t">>

TestFactCheckers == <<"f","a","c","t","-","c","h","e","c","k","e","r","s"," ","a","r","e"," ","b","u","s","y">>

TestThatsWrong == <<"t","h","a","t","'","s"," ","w","r","o","n","g">>

TestIThinkSo == <<"I"," ","t","h","i","n","k"," ","s","o">>

CueInputs ==
  Concats(CuePieces, MaxPieces)
    \cup {TestFactCheckThat, TestFactCheckers, TestThatsWrong, TestIThinkSo}

\* A caller holds the text
InitCue ==
  /\ Constructed
  /\ \E text \in CueInputs : input = <<text>>
  /\ output = <<>>

\* isDisputeCue(text)
CallDisputeCue ==
  /\ Len(input) = 1
  /\ output = <<>>
  /\ output' = <<isDisputeCue(input[1])>>
  /\ UNCHANGED <<regVars, pipeVars, histVars, now, ticks, lastEvent, input>>

\* isExplicitVerifyCue(text)
CallVerifyCue ==
  /\ Len(input) = 1
  /\ Len(output) = 1
  /\ output' = Append(output, isExplicitVerifyCue(input[1]))
  /\ UNCHANGED <<regVars, pipeVars, histVars, now, ticks, lastEvent, input>>

NextCue == CallDisputeCue \/ CallVerifyCue

SpecCue == InitCue /\ [][NextCue]_vars

(* ------------------------------------------------------------------ *)

(* Properties                                                         *)
(* ------------------------------------------------------------------ *)

\* The flags a caller can pass: urgent is hasDispute \/ forceCheck
CallFlags == {<<FALSE, FALSE>>, <<TRUE, FALSE>>, <<TRUE, TRUE>>}

Context == getRecentContext(transcriptHistory, now)

\* The registry states in which a queueClaimCheck call can begin: the state
\* a handler starts in and, inside one extraction response, the states after
\* up to k earlier calls of its batch
RECURSIVE AfterCalls(_)
AfterCalls(k) ==
  IF k = 0 THEN {Registry}
  ELSE LET earlier == AfterCalls(k - 1)
       IN  earlier \cup
           {queueClaimCheck(s, claim, Context, f[1], f[2], now) :
              s \in earlier, claim \in ClaimTexts, f \in CallFlags}

CallStates == AfterCalls(MaxBatch - 1)

\* The published entry of record id
EntryOf(list, id) == list[CHOOSE i \in 1..Len(list) : list[i].id = id]

HasEntry(list, id) == \E i \in 1..Len(list) : list[i].id = id

\* What a consumer sees of record id: the record and its published entry
Visible(s, id) == <<s.claimById[id], EntryOf(s.factChecks, id)>>

\* The record done and checked less than CLAIM_TTL_MS ago
FreshDone(record) ==
  /\ record.status = "done"
  /\ record.lastCheckedAt # None
  /\ now - record.lastCheckedAt < CLAIM_TTL_MS

\* claim resolves in s to a fresh done record with score >= 0.92
MatchesFreshDone(s, claim) ==
  LET m == MatchOf(s, claim)
  IN  /\ m # NoMatch
      /\ FreshDone(s.claimById[m.id])
      /\ ScoreGE(m.score, Score(92, 100))

\* C1: a response for a request whose revision is no longer the record's
\* changes neither a record nor a published entry, on success and on
\* failure alike; a response for the current revision sets the status to
\* done and, on success, publishes its result.
C1_StaleResultDiscarded ==
  \A item \in workers :
    LET ok == applyResult(Registry, item, now)
        failed == applyError(Registry, item)
    IN  IF claimById[item.id].revision # item.revision
        THEN /\ ok.claimById = claimById /\ ok.factChecks = factChecks
             /\ failed.claimById = claimById /\ failed.factChecks = factChecks
        ELSE /\ ok.claimById[item.id].status = "done"
             /\ EntryOf(ok.factChecks, item.id).result = ResultFor(item)
             /\ ~EntryOf(ok.factChecks, item.id).isLoading
             /\ failed.claimById[item.id].status = "done"

\* A stale response has just been discarded and the record, re-queued
\* meanwhile, is now verified at its current revision
C1_Witness ==
  /\ lastEvent.op = "stale"
  /\ claimById[lastEvent.item.id].revision > lastEvent.item.revision
  /\ claimById[lastEvent.item.id].status = "checking"
  /\ EntryOf(factChecks, lastEvent.item.id).isLoading
  /\ EntryOf(factChecks, lastEvent.item.id).error = Undefined

\* C2: at most one verification request is outstanding and at most one
\* record is checking.
C2_SingleInFlight ==
  /\ Cardinality(workers) <= 1
  /\ Cardinality({id \in DOMAIN claimById : claimById[id].status = "checking"}) <= 1

\* A request is outstanding while an item of another record waits
C2_Witness ==
  /\ Cardinality(workers) = 1
  /\ \E i \in 1..Len(factCheckQueue) : \A item \in workers :
       factCheckQueue[i].id # item.id

\* C3: a done record's published result answers a request with the
\* record's id, its current revision and its current text; and a response
\* for one record leaves every other record and entry as they were.
C3_NoCrossClaimVerdicts ==
  /\ \A id \in DOMAIN claimById :
       LET entry == EntryOf(factChecks, id)
       IN  (claimById[id].status = "done" /\ entry.result # NullResult) =>
             /\ Len(entry.result) = 1
             /\ entry.result[1].id = id
             /\ entry.result[1].revision = claimById[id].revision
             /\ entry.result[1].claim = claimById[id].claim
  /\ \A item \in workers : \A other \in DOMAIN claimById \ {item.id} :
       /\ Visible(applyResult(Registry, item, now), other) = Visible(Registry, other)
       /\ Visible(applyError(Registry, item), other) = Visible(Registry, other)

\* Two records, one done with a result for its second revision or later
C3_Witness ==
  /\ Cardinality(DOMAIN claimById) >= 2
  /\ \E id \in DOMAIN claimById :
       /\ claimById[id].status = "done"
       /\ claimById[id].revision >= 2
       /\ EntryOf(factChecks, id).result # NullResult
       /\ EntryOf(factChecks, id) # factChecks[1]

\* C4: a call without urgent and forceCheck that resolves to a fresh done
\* record with score >= 0.92 adds no queue item and leaves the records, the
\* index and the published list unchanged.
C4_DedupSuppression ==
  \A s \in CallStates : \A claim \in ClaimTexts :
    MatchesFreshDone(s, claim) =>
      LET after == queueClaimCheck(s, claim, Context, FALSE, FALSE, now)
      IN  /\ after.factCheckQueue = s.factCheckQueue
          /\ after.claimById = s.claimById
          /\ after.claimIndex = s.claimIndex
          /\ after.factChecks = s.factChecks

\* Such a call can be made, with another wording than the record's
C4_Witness ==
  \E claim \in ClaimTexts :
    /\ MatchesFreshDone(Registry, claim)
    /\ claimById[MatchOf(Registry, claim).id].claim # claim
    /\ LET after == queueClaimCheck(Registry, claim, Context, FALSE, FALSE, now)
       IN  after.calls[Len(after.calls)].outcome = "suppressed"

\* queue without its items for record id
WithoutId(queue, id) == SelectSeq(queue, LAMBDA item : item.id # id)

\* C5: the same call with urgent set bumps the revision by one, sets the
\* status to queued and places an item with the new revision at the front
\* of the queue, ahead of every item that was waiting.
C5_UrgentBypass ==
  \A s \in CallStates : \A claim \in ClaimTexts : \A forceCheck \in BOOLEAN :
    MatchesFreshDone(s, claim) =>
      LET id == MatchOf(s, claim).id
          after == queueClaimCheck(s, claim, Context, TRUE, forceCheck, now)
      IN  /\ after.claimById[id].revision = s.claimById[id].revision + 1
          /\ after.claimById[id].status = "queued"
          /\ Len(after.factCheckQueue) >= 1
          /\ Head(after.factCheckQueue).id = id
          /\ Head(after.factCheckQueue).revision = after.claimById[id].revision
          /\ Head(after.factCheckQueue).claim = claim
          /\ Tail(after.factCheckQueue) = WithoutId(s.factCheckQueue, id)

\* Such a call can be made while an item of another record waits
C5_Witness ==
  \E claim \in ClaimTexts :
    /\ MatchesFreshDone(Registry, claim)
    /\ \E i \in 1..Len(factCheckQueue) :
         factCheckQueue[i].id # MatchOf(Registry, claim).id
    /\ LET after == queueClaimCheck(Registry, claim, Context, TRUE, FALSE, now)
       IN  after.calls[Len(after.calls)].outcome = "requeued"

\* The revisions of the records of s
Revisions(s) == [id \in Ids(s) |-> s.claimById[id].revision]

\* C6: a call of queueClaimCheck gives a new record revision 1, adds exactly
\* one to the revision of a record it re-queues and leaves every other
\* revision alone; popping, starting, completing, failing and discarding a
\* verification change no revision; so no revision ever decreases.
C6_CallsAndWorker ==
  /\ \A s \in CallStates : \A claim \in ClaimTexts : \A f \in CallFlags :
       LET after == queueClaimCheck(s, claim, Context, f[1], f[2], now)
           target == after.latestClaimId
           requeued == \/ after.claimById # s.claimById
                       \/ after.factCheckQueue # s.factCheckQueue
                       \/ after.factChecks # s.factChecks
       IN  /\ target \in Ids(after)
           /\ \A id \in Ids(s) : id \in Ids(after)
           /\ \A id \in Ids(after) :
                IF id \notin Ids(s) THEN after.claimById[id].revision = 1
                ELSE IF id = target /\ requeued
                THEN after.claimById[id].revision = s.claimById[id].revision + 1
                ELSE after.claimById[id].revision = s.claimById[id].revision
  /\ \A s \in CallStates : Revisions(processQueue(s)) = Revisions(s)
  /\ \A item \in workers :
       /\ Revisions(applyResult(Registry, item, now)) = Revisions(Registry)
       /\ Revisions(applyError(Registry, item)) = Revisions(Registry)
       /\ Revisions(processQueueResume(Registry, item)) = Revisions(Registry)

C6_NeverDecreases ==
  \A id \in DOMAIN claimById :
    /\ id \in DOMAIN claimById'
    /\ claimById'[id].revision >= claimById[id].revision

C6_RevisionMonotonic == [](C6_CallsAndWorker) /\ [][C6_NeverDecreases]_vars

\* A record that has been re-queued twice
C6_Witness == \E id \in DOMAIN claimById : claimById[id].revision = 3

StrictlyIncreasing(seq) == \A i \in 1..(Len(seq) - 1) : seq[i] < seq[i + 1]

\* C7: for each record the revisions of the applied responses are strictly
\* increasing, and a response is applied only if its revision is the
\* record's revision when it arrives.
C7_IncreasingApplied == \A id \in DOMAIN applied : StrictlyIncreasing(applied[id])

C7_AppliedIsCurrent ==
  lastEvent'.op \in {"result", "error"} =>
    /\ lastEvent'.item.revision = claimById[lastEvent'.item.id].revision
    /\ claimById'[lastEvent'.item.id].status = "done"

C7_DiscardedIsStale ==
  lastEvent'.op = "stale" =>
    lastEvent'.item.revision < claimById[lastEvent'.item.id].revision

C7_ResultOrdering ==
  /\ [](C7_IncreasingApplied)
  /\ [][C7_AppliedIsCurrent /\ C7_DiscardedIsStale]_vars

\* Two responses of one record have been applied, with a discarded one of
\* the revision between them
C7_Witness == \E id \in DOMAIN applied : applied[id] = <<1, 3>>

ScoreLT(x, y) == ~ScoreGE(x, y)

\* C8: no two records have equal normalized text, and no two records'
\* claim texts have a similarity score >= 0.78.
C8_OneRecordPerClaim ==
  \A id1, id2 \in DOMAIN claimById :
    id1 # id2 =>
      /\ claimById[id1].normalized # claimById[id2].normalized
      /\ ScoreLT(SimilarityTable[claimById[id1].claim, claimById[id2].claim],
                 Score(78, 100))

\* The index has exactly the normalized texts of the records of s as keys
IndexConsistent(s) ==
  /\ \A id \in Ids(s) :
       /\ s.claimById[id].normalized = NormalizedTable[s.claimById[id].claim]
       /\ s.claimById[id].normalized \in DOMAIN s.claimIndex
       /\ s.claimIndex[s.claimById[id].normalized] = id
  /\ DOMAIN s.claimIndex = {s.claimById[id].normalized : id \in Ids(s)}

\* C9: after every queueClaimCheck call every record's normalized field is
\* normalizeClaim of its text, the index maps it to the record's id, and
\* the index has no other key.
C9_IndexConsistency ==
  /\ IndexConsistent(Registry)
  /\ \A s \in CallStates : \A claim \in ClaimTexts : \A f \in CallFlags :
       IndexConsistent(queueClaimCheck(s, claim, Context, f[1], f[2], now))

\* A record has been re-keyed: its text is no longer the one it was created
\* with, and another record exists
C9_Witness ==
  /\ Cardinality(DOMAIN claimById) = 2
  /\ claimById[1].normalized = NormalizedTable[TxAntEel]
  /\ claimById[1].revision = 2

\* The intent flags of a batch: a flag is set when a fragment carries the cue
IntentOf(fragments) ==
  [hasDispute |-> \E i \in 1..Len(fragments) : DisputeTable[fragments[i]],
   hasExplicitVerify |-> \E i \in 1..Len(fragments) : VerifyTable[fragments[i]]]

\* While a batch is pending exactly one timer is armed, the one the ref
\* holds, and the pending text is the fragments of the batch joined with
\* single spaces in arrival order; with no batch pending nothing is armed,
\* the pending text is empty and the flags are reset
C10_Pending ==
  /\ pendingText = JoinSpace(batch)
  /\ pendingIntent = IntentOf(batch)
  /\ IF batch # <<>>
     THEN /\ Cardinality(timers) = 1
          /\ \A timer \in timers : timer.handle = extractTimeout
     ELSE timers = {} /\ pendingText = <<>> /\ pendingIntent = NoIntent

\* A final fragment cancels every timer that was armed and arms a new one
C10_FragmentResetsTimer ==
  lastEvent'.op = "fragment" =>
    /\ timers \cap timers' = {}
    /\ \E timer \in timers' :
         /\ timers' = {timer}
         /\ timer.dueAt = now + getExtractionDelayMs(batch'[Len(batch')],
                                                    pendingIntent'.hasExplicitVerify)

\* The batch is worth an extraction call
LongEnough(fragments) ==
  \/ Len(trim(JoinSpace(fragments))) >= MIN_EXTRACT_TEXT_CHARS
  \/ IntentOf(fragments).hasDispute
  \/ IntentOf(fragments).hasExplicitVerify

\* The timer fires: one call with the whole batch when it is long enough
\* or carries a cue, none otherwise
C10_FlushCallsAtMostOnce ==
  lastEvent'.op = "timer" =>
    /\ batch # <<>>
    /\ pendingText' = <<>>
    /\ pendingIntent' = NoIntent
    /\ IF LongEnough(batch)
       THEN /\ Len(extractions') = Len(extractions) + 1
            /\ SubSeq(extractions', 1, Len(extractions)) = extractions
            /\ extractions'[Len(extractions')].newText = JoinSpace(batch)
            /\ extractions'[Len(extractions')].intent = IntentOf(batch)
       ELSE extractions' = extractions

\* C10: each final fragment cancels the pending extraction timer and
\* starts a new one; the fragments that arrive before the timer fires are
\* joined with single spaces in arrival order; when the timer fires at most
\* one extraction call is made for the whole batch: exactly one, carrying
\* the joined text, when the trimmed batch has at least 8 characters or
\* carries a dispute or verify cue, and none otherwise; after the timer
\* fires the pending text is empty and the intent flags are reset.
C10_DebounceCoalescing ==
  /\ [](C10_Pending)
  /\ [][C10_FragmentResetsTimer /\ C10_FlushCallsAtMostOnce]_vars

\* A batch of two fragments has just been flushed by the timer in one call
C10_Witness ==
  /\ lastEvent.op = "timer"
  /\ Len(extractions) = 1
  /\ extractions[1].newText = FrCats \o <<" ">> \o FrEatFish
  /\ timerCount = 2
  /\ timers = {}
  /\ pendingText = <<>>

\* C10 as the specification words it: when the timer fires exactly one
\* extraction call is made for the batch.
C10_ExactlyOneCall ==
  [][lastEvent'.op = "timer" => Len(extractions') = Len(extractions) + 1]_vars

\* The intents that carry a dispute or an explicit-verify cue
CueIntents == {intent \in Intents : intent.hasDispute \/ intent.hasExplicitVerify}

\* C11: when a round flushed with a dispute or explicit-verify cue yields no
\* candidate and a record exists, the record touched last by a
\* queueClaimCheck call is re-queued urgent and forced: its revision grows
\* by one, its status becomes queued, its item goes to the front of the
\* queue, and processQueue is called, which starts the item at once unless a
\* request is outstanding.
C11_DisputeFallback ==
  \A intent \in CueIntents :
    claimById # <<>> =>
      LET id == latestClaimId
          after == queueLatest(Registry, intent, Context, now)
          final == extractResponse(Registry, intent, <<>>, NoForced, Context, now)
      IN  /\ id \in DOMAIN claimById
          /\ after.claimById[id].revision = claimById[id].revision + 1
          /\ after.claimById[id].status = "queued"
          /\ after.claimById[id].claim = claimById[id].claim
          /\ Head(after.factCheckQueue).id = id
          /\ Head(after.factCheckQueue).revision = after.claimById[id].revision
          /\ Head(after.factCheckQueue).urgent
          /\ Tail(after.factCheckQueue) = WithoutId(factCheckQueue, id)
          /\ after.calls = <<Call(claimById[id].claim, TRUE, TRUE, "requeued", id)>>
          /\ final = processQueue(after)
          /\ IF isProcessing
             THEN final = after
             ELSE /\ final.claimById[id].status = "checking"
                  /\ Head(after.factCheckQueue) \in final.workers

\* The record touched last is done and is not the newest record, another
\* record's item waits, and the fallback re-queues the record touched last
C11_Witness ==
  /\ Cardinality(DOMAIN claimById) = 2
  /\ latestClaimId = 1
  /\ claimById[1].status = "done"
  /\ \E i \in 1..Len(factCheckQueue) : factCheckQueue[i].id = 2
  /\ \E intent \in CueIntents :
       Head(queueLatest(Registry, intent, Context, now).factCheckQueue).id = 1

\* The first item of queue that is current in s, NoItem when there is none
FirstCurrent(s, queue) ==
  IF \E i \in 1..Len(queue) : IsCurrent(s, queue[i])
  THEN queue[CHOOSE i \in 1..Len(queue) :
               IsCurrent(s, queue[i]) /\ \A j \in 1..(i - 1) : ~IsCurrent(s, queue[j])]
  ELSE NoItem

\* C12: when the verification call for a record's current revision fails,
\* the record becomes done and its entry gets the error message and stops
\* loading; no other record or entry changes; processQueue goes on with the
\* next item that is current; and a later urgent or forced queueClaimCheck
\* with the record's text re-queues it.
C12_VerificationFailure ==
  \A item \in workers :
    IsCurrent(Registry, item) =>
      LET id == item.id
          failed == applyError(Registry, item)
          resumed == processQueueResume(failed, item)
          next == FirstCurrent(failed, factCheckQueue)
      IN  /\ failed.claimById[id].status = "done"
          /\ EntryOf(failed.factChecks, id).error = ErrorMessage
          /\ ~EntryOf(failed.factChecks, id).isLoading
          /\ \A other \in DOMAIN claimById \ {id} :
               Visible(failed, other) = Visible(Registry, other)
          /\ item \notin resumed.workers
          /\ IF next = NoItem
             THEN /\ resumed.workers = {} /\ ~resumed.isProcessing
                  /\ resumed.factCheckQueue = <<>>
             ELSE /\ resumed.workers = {next} /\ resumed.isProcessing
                  /\ resumed.claimById[next.id].status = "checking"
          /\ \A f \in {<<TRUE, FALSE>>, <<TRUE, TRUE>>, <<FALSE, TRUE>>} :
               LET again == queueClaimCheck(resumed, claimById[id].claim, Context,
                                            f[1], f[2], now)
               IN  /\ again.claimById[id].revision = claimById[id].revision + 1
                   /\ again.claimById[id].status = "queued"
                   /\ \E i \in 1..Len(again.factCheckQueue) :
                        /\ again.factCheckQueue[i].id = id
                        /\ again.factCheckQueue[i].revision = again.claimById[id].revision

\* A verification has just failed: the record is done with the error on its
\* entry, and the worker has gone on with another record's item
C12_Witness ==
  /\ lastEvent.op = "error"
  /\ claimById[lastEvent.item.id].status = "done"
  /\ EntryOf(factChecks, lastEvent.item.id).error = ErrorMessage
  /\ \E item \in workers : item.id # lastEvent.item.id

\* An extraction call fails: no record, index entry, queue item, published
\* entry or outstanding verification changes, the scheduler keeps its
\* pending batch and its timer, and only the failed request goes away
C13_FailureChangesNothing ==
  lastEvent'.op = "extractfail" =>
    /\ UNCHANGED <<claimById, claimIndex, factCheckQueue, latestClaimId,
                   isProcessing, factChecks, workers>>
    /\ UNCHANGED <<transcriptHistory, pendingText, pendingIntent, extractTimeout,
                   timers, timerCount, isListening>>
    /\ Len(extractions') = Len(extractions) - 1

\* A fragment is accepted whenever the listener is on, whatever the
\* extraction calls did before: it joins the pending text and arms the timer
C13_FragmentsStillAccepted ==
  \A text \in FragmentTexts :
    LET p == extractAndProcessClaims(Scheduler, text, now)
    IN  /\ p.pendingText = JoinSpace(Append(batch, text))
        /\ \E timer \in p.timers : timer.handle = p.extractTimeout

\* C13: a failed extraction call (response not ok, network error, body that
\* does not parse) creates and changes no record and enqueues nothing, and
\* fragments are still accepted, debounced and extracted afterwards.
C13_ExtractionFailure ==
  /\ [](C13_FragmentsStillAccepted)
  /\ [][C13_FailureChangesNothing]_vars

\* An extraction call has just failed while a later fragment waits for its
\* timer: the failure left the batch and the timer in place
C13_Witness ==
  /\ lastEvent.op = "extractfail"
  /\ claimById = <<>>
  /\ extractions = <<>>
  /\ batch # <<>>
  /\ Cardinality(timers) = 1

\* The worker is never idle while an item waits
C14_NeverIdle ==
  factCheckQueue # <<>> => isProcessing /\ Cardinality(workers) = 1

\* The queue holds an item of record id with revision rev
InQueue(id, rev) ==
  \E i \in 1..Len(factCheckQueue) :
    factCheckQueue[i].id = id /\ factCheckQueue[i].revision = rev

\* Record id exists with this status
HasStatus(id, statuses) == id \in DOMAIN claimById /\ claimById[id].status \in statuses

C15_NotFinalStaysOut ==
  lastEvent'.op \in {"interim", "blank"} =>
    /\ UNCHANGED <<transcriptHistory, pendingText, pendingIntent, extractTimeout,
                   timers, timerCount, extractions, isListening, batch>>
    /\ UNCHANGED <<regVars, applied, now>>
    /\ lastEvent'.op = "blank" => UNCHANGED interimText
    /\ lastEvent'.op = "interim" => interimText' # <<>>

C15_OnlyFinalFragments == [][C15_NotFinalStaysOut]_vars

\* An interim transcript is on display while a batch waits for its timer
C15_Witness ==
  /\ lastEvent.op = "interim"
  /\ interimText = FrWrong
  /\ batch = <<FrCats>>
  /\ pendingIntent = NoIntent
  /\ Cardinality(timers) = 1

\* The ids of the published entries, in list order
IdsOf(list) == [i \in 1..Len(list) |-> list[i].id]

\* C16: the published list has exactly one entry per record id and no
\* entry without a record; a call that creates or re-queues a record puts
\* its entry at the front and keeps the order of the others, a call that
\* does neither leaves the list alone; results and errors update an entry
\* in place and keep the order.
C16_PublishedView ==
  /\ Len(factChecks) = Cardinality(DOMAIN claimById)
  /\ {factChecks[i].id : i \in 1..Len(factChecks)} = DOMAIN claimById
  /\ \A s \in CallStates : \A claim \in ClaimTexts : \A f \in CallFlags :
       LET after == queueClaimCheck(s, claim, Context, f[1], f[2], now)
           id == after.latestClaimId
       IN  IF after.claimById # s.claimById
           THEN /\ IdsOf(after.factChecks) =
                     <<id>> \o SelectSeq(IdsOf(s.factChecks), LAMBDA other : other # id)
                /\ after.factChecks[1].isLoading
                /\ after.factChecks[1].claim = claim
                /\ \A other \in Ids(s) \ {id} :
                     EntryOf(after.factChecks, other) = EntryOf(s.factChecks, other)
           ELSE after.factChecks = s.factChecks
  /\ \A item \in workers :
       /\ IdsOf(applyResult(Registry, item, now).factChecks) = IdsOf(factChecks)
       /\ IdsOf(applyError(Registry, item).factChecks) = IdsOf(factChecks)

\* The older record was re-queued after the newer one, so its entry is in
\* front, and the newer record's result was written in place behind it
C16_Witness ==
  /\ IdsOf(factChecks) = <<1, 2>>
  /\ factChecks[1].isLoading
  /\ factChecks[2].result # NullResult
  /\ claimById[1].revision = 2

\* A text that is empty or too short after trimming
TooShort(claim) == Len(TrimTable[claim]) <= 10

\* The texts of the records of s
TextsIn(s) == {s.claimById[id].claim : id \in Ids(s)}

\* C17: a candidate of an extraction response that is empty or has at most
\* 10 characters after trimming is dropped by the extraction route, so an
\* extraction response never creates a record for such a text nor writes it
\* into a record; a text submission that is blank changes nothing; a text
\* submission that is short but not blank is queued like any other.
C17_RouteFiltersCandidates ==
  /\ \A intent \in Intents : \A raw \in SeqsUpTo(AllTexts, MaxBatch) :
       LET after == extractResponse(Registry, intent, routeFilter(raw), NoForced,
                                    Context, now)
       IN  /\ \A claim \in TextsIn(after) \ TextsIn(Registry) : ~TooShort(claim)
           /\ (\A i \in 1..Len(raw) : TooShort(raw[i])) =>
                after = extractResponse(Registry, intent, <<>>, NoForced, Context, now)
  /\ \A text \in AllTexts :
       TrimTable[text] = <<>> => ~ENABLED HandleTextSubmit(text)
  /\ \A text \in AllTexts :
       (TrimTable[text] # <<>> /\ MatchOf(Registry, TrimTable[text]) = NoMatch) =>
         LET after == queueClaimCheck(Registry, TrimTable[text], Context, TRUE, TRUE, now)
         IN  TrimTable[text] \in TextsIn(after)

\* The language model proposes a short candidate while a record that was
\* typed in with a short text exists
C17_Witness ==
  /\ \E id \in DOMAIN claimById : claimById[id].claim = TxShort
  /\ \E id \in DOMAIN claimById : claimById[id].claim = TxEel
  /\ extractResponse(Registry, NoIntent, routeFilter(<<TxShort>>), NoForced,
                     Context, now) = Registry

\* C17 as the specification words it: no record is ever created for a text
\* that is empty or too short after trimming, wherever the text comes from.
C17_NoShortRecords ==
  \A id \in DOMAIN claimById : ~TooShort(claimById[id].claim)

\* A timeout of the verification call for the current revision of a record
\* was handled in this step
TimedOutFor(item) ==
  /\ item \in workers
  /\ IsCurrent(Registry, item)
  /\ lastEvent' = Event("timeout", item)

\* The record of a timed-out call is done and no longer in flight
C18_TimeoutCompletes ==
  \A item \in workers : TimedOutFor(item) =>
    /\ claimById'[item.id].status = "done"
    /\ claimById'[item.id].inFlightRevision = None
    /\ item \notin workers'

\* C18: when a verification call times out, the record becomes done, an
\* error string and no verdict is recorded on its published entry, and
\* lastCheckedAt is not refreshed.
C18_TimeoutIsError ==
  [][\A item \in workers : TimedOutFor(item) =>
       /\ claimById'[item.id].status = "done"
       /\ EntryOf(factChecks', item.id).error # Undefined
       /\ EntryOf(factChecks', item.id).result = NullResult
       /\ claimById'[item.id].lastCheckedAt = claimById[item.id].lastCheckedAt]_vars

\* What the code does on a timeout: done, with the route's "unverified"
\* verdict as the result, no error, and lastCheckedAt refreshed
C18_TimeoutIsVerdict ==
  [][\A item \in workers : TimedOutFor(item) =>
       /\ C18_TimeoutCompletes
       /\ EntryOf(factChecks', item.id).error = Undefined
       /\ EntryOf(factChecks', item.id).result = TimeoutResult
       /\ ~EntryOf(factChecks', item.id).isLoading
       /\ claimById'[item.id].lastCheckedAt = now]_vars

\* A timeout was handled for a record that had never been checked
C18_Witness ==
  /\ lastEvent.op = "timeout"
  /\ lastEvent.item.id \in DOMAIN claimById
  /\ claimById[lastEvent.item.id].status = "done"
  /\ claimById[lastEvent.item.id].revision = 1
  /\ EntryOf(factChecks, lastEvent.item.id).result = TimeoutResult

\* normalizeClaim has been applied to claim and then to its own result
NormalizedTwice == Len(input) = 1 /\ Len(output) = 2

\* C19: normalizeClaim(normalizeClaim(s)) equals normalizeClaim(s) for every
\* string s.
C19_Idempotent == NormalizedTwice => output[2] = output[1]

\* normalizeClaim is idempotent on the strings without punctuation
C19_IdempotentWithoutPunctuation ==
  (NormalizedTwice /\ StripPunctuation(input[1]) = input[1]) => output[2] = output[1]

\* Stripping the punctuation exposed a unit word that the second
\* application replaced
C19_Exposed ==
  /\ NormalizedTwice
  /\ input[1] = <<"p","e","r",".","c","e","n","t">>
  /\ output = << <<"p","e","r","c","e","n","t">>, <<"%">> >>

ScoreEqual(x, y) == x[1] * y[2] = y[1] * x[2]

\* claimSimilarityScore has been applied to (a, b) and to (b, a)
ScoredBothWays == Len(input) = 2 /\ Len(output) = 2

\* C20: claimSimilarityScore(a, b) equals claimSimilarityScore(b, a) for
\* all strings a and b.
C20_Symmetric == ScoredBothWays => ScoreEqual(output[1], output[2])

\* Both orders were scored in the token-overlap branch for texts with
\* token sets of different sizes
C20_Witness ==
  /\ ScoredBothWays
  /\ input[1] = <<"a","n","t"," ","t","h","e">>
  /\ input[2] = <<"a","n","t"," ","b","a","t">>
  /\ output = <<Score(1, 1), Score(1, 1)>>

\* The first call of claimSimilarityScore(a, b) has returned
Scored == Len(input) = 2 /\ Len(output) >= 1

\* The white-space separated tokens of text that are longer than 2
\* characters and are not stop words
ContentWords(text) ==
  {tok \in SplitSpaces(text) : Len(tok) > 2 /\ tok \notin STOP_WORDS}

\* The score the rules give for the normalized strings na and nb
RuleScore(na, nb) ==
  LET wordsA == ContentWords(na)
      wordsB == ContentWords(nb)
  IN  CASE na = <<>> \/ nb = <<>> -> Score(0, 1)
        [] na # <<>> /\ nb # <<>> /\ na = nb -> Score(1, 1)
        [] na # <<>> /\ nb # <<>> /\ na # nb /\ (Includes(na, nb) \/ Includes(nb, na)) ->
             Score(95, 100)
        [] OTHER ->
             IF wordsA = {} \/ wordsB = {} THEN Score(0, 1)
             ELSE Score(Cardinality(wordsA \cap wordsB),
                        Min(Cardinality(wordsA), Cardinality(wordsB)))

\* C21: claimSimilarityScore returns a value in [0,1] fixed by the first rule
\* that applies: 0 if either normalized string is empty, 1 if they are
\* identical, 0.95 if one contains the other, otherwise shared content
\* tokens over the smaller number of content tokens, or 0 if either has
\* none; the rephrasing of the test scores above 0.7 and its unrelated
\* claims below 0.4.
C21_SimilarityRules ==
  Scored =>
    /\ output[1][2] > 0
    /\ ScoreGE(output[1], Score(0, 1))
    /\ ScoreGE(Score(1, 1), output[1])
    /\ ScoreEqual(output[1], RuleScore(normalizeClaim(input[1]), normalizeClaim(input[2])))
    /\ input = <<TestFundingLong, TestFundingShort>> => ScoreGT(output[1], Score(7, 10))
    /\ input = <<TestCats, TestSky>> => ScoreLT(output[1], Score(4, 10))

\* The rephrasing of the test was scored in the token-overlap branch: four
\* of the five content tokens of the shorter claim are shared
C21_Witness ==
  /\ Scored
  /\ input = <<TestFundingLong, TestFundingShort>>
  /\ output[1] = Score(4, 5)

\* Both delays have been computed
DelayedBoth == Len(input) = 3 /\ Len(output) = 2

\* The text has a character that is not white space, and its last such
\* character is in set
EndsIn(text, set) ==
  \E i \in 1..Len(text) :
    /\ text[i] \in set
    /\ \A j \in (i + 1)..Len(text) : IsSpace(text[j])

\* The last white-space separated word of text, in lower case
FinalWord(text) ==
  LET low == toLowerCase(text)
      chars == {i \in 1..Len(low) : ~IsSpace(low[i])}
      last == CHOOSE i \in chars : \A j \in chars : j <= i
      first == CHOOSE i \in 1..last :
                 /\ \A j \in i..last : j \in chars
                 /\ (i = 1 \/ (i - 1) \notin chars)
  IN  IF chars = {} THEN <<>> ELSE SubSeq(low, first, last)

\* The delay the rules give
RuleDelay(text, hasExplicitVerify) ==
  CASE hasExplicitVerify -> 0
    [] ~hasExplicitVerify /\ (\A i \in 1..Len(text) : IsSpace(text[i])) -> 220
    [] ~hasExplicitVerify /\ EndsIn(text, {".", "!", "?"}) -> 120
    [] ~hasExplicitVerify /\ ~EndsIn(text, {".", "!", "?"})
         /\ FinalWord(text) \in CONTINUATION_WORDS -> 650
    [] OTHER -> IF EndsIn(text, Digits) THEN 450 ELSE 220

\* C22: getExtractionDelayMs returns, by the first rule that applies, 0 when
\* explicit-verify is pending, 220 for blank text, 120 when the trimmed text
\* ends in '.', '!' or '?', 650 when its last word is a continuation word,
\* 450 when it ends in a digit, otherwise 220; so without a pending
\* explicit-verify a fragment ending in terminal punctuation gets a strictly
\* shorter delay than one ending in a digit, and with it every delay is 0.
C22_DelayPolicy ==
  DelayedBoth =>
    /\ output[1] = RuleDelay(input[1], input[3])
    /\ output[2] = RuleDelay(input[2], input[3])
    /\ (~input[3] /\ EndsIn(input[1], {".", "!", "?"}) /\ EndsIn(input[2], Digits)) =>
         output[1] < output[2]
    /\ input[3] => output = <<0, 0>>

\* The two fragments of the test got 120 and 450
C22_Witness ==
  /\ DelayedBoth
  /\ input = <<TestPunctuated, TestTrailingNumber, FALSE>>
  /\ output = <<QUICK_DELAY_MS, NUMBER_DELAY_MS>>

\* Both classifiers have been applied to the text
Classified == Len(input) = 1 /\ Len(output) = 2

\* The dispute phrases without white-space runs, in lower case
DisputePhrases ==
  { <<"i"," ","d","i","s","a","g","r","e","e">>,
    <<"t","h","a","t","'","s"," ","w","r","o","n","g">>,
    <<"t","h","a","t"," ","i","s"," ","w","r","o","n","g">>,
    <<"y","o","u","'","r","e"," ","w","r","o","n","g">>,
    <<"n","o","t"," ","t","r","u","e">>,
    <<"i","s","n","'","t"," ","t","r","u","e">>,
    <<"i","n","c","o","r","r","e","c","t">>,
    <<"f","a","l","s","e">>,
    <<"t","h","a","t","'","s"," ","f","a","l","s","e">>,
    <<"t","h","a","t"," ","i","s"," ","f","a","l","s","e">> }

\* The explicit-verify phrases, in lower case
VerifyPhrases ==
  { <<"f","a","c","t","-","c","h","e","c","k">>,
    <<"f","a","c","t"," ","c","h","e","c","k">>,
    <<"f","a","c","t","c","h","e","c","k">>,
    <<"v","e","r","i","f","y">>,
    <<"c","h","e","c","k"," ","i","f">>,
    <<"i","s"," ","t","h","a","t"," ","t","r","u","e">>,
    <<"i","s"," ","t","h","i","s"," ","t","r","u","e">>,
    <<"i","s"," ","i","t"," ","t","r","u","e">>,
    <<"i","s"," ","t","h","a","t"," ","c","o","r","r","e","c","t">> }

\* w is "no", an optional comma, white space and "that's" or "that is"
IsNoThat(w) ==
  \E tail \in {<<"t","h","a","t","'","s">>, <<"t","h","a","t"," ","i","s">>} :
    \E comma \in {<<>>, <<",">>} :
      LET start == <<"n","o">> \o comma
          gap == Len(w) - Len(start) - Len(tail)
      IN  /\ gap >= 1
          /\ SubSeq(w, 1, Len(start)) = start
          /\ \A i \in (Len(start) + 1)..(Len(start) + gap) : IsSpace(w[i])
          /\ SubSeq(w, Len(w) - Len(tail) + 1, Len(w)) = tail

\* The lower-cased text has, between two word boundaries, a phrase of the
\* set or (when withNo) a "no, that's" phrase
HasCue(text, phrases, withNo) ==
  LET low == toLowerCase(text)
  IN  \E i \in 1..(Len(low) + 1) : \E j \in i..(Len(low) + 1) :
        /\ WordBoundary(low, i)
        /\ WordBoundary(low, j)
        /\ \/ SubSeq(low, i, j - 1) \in phrases
           \/ withNo /\ IsNoThat(SubSeq(low, i, j - 1))

\* C23: isDisputeCue and isExplicitVerifyCue are false for blank text and
\* true exactly when the text has one of their cue phrases between word
\* boundaries, in any case; "fact-checkers are busy" is not an
\* explicit-verify cue, "fact check that" is, "that's wrong" is a dispute
\* cue and "I think so" is not.
C23_IntentClassifiers ==
  Classified =>
    /\ output[1] = HasCue(input[1], DisputePhrases, TRUE)
    /\ output[2] = HasCue(input[1], VerifyPhrases, FALSE)
    /\ (\A i \in 1..Len(input[1]) : IsSpace(input[1][i])) => output = <<FALSE, FALSE>>
    /\ input[1] = TestFactCheckers => ~output[2]
    /\ input[1] = TestFactCheckThat => output[2]
    /\ input[1] = TestThatsWrong => output[1]
    /\ input[1] = TestIThinkSo => ~output[1]

\* A text that contains "fact-check" only inside "fact-checkers" was
\* classified as no cue
C23_Witness ==
  /\ Classified
  /\ input[1] = TestFactCheckers
  /\ output = <<FALSE, FALSE>>

\* The score of claim against record id of s
ScoreAgainst(s, claim, id) == SimilarityTable[claim, s.claimById[id].claim]

\* The records of s that score at least 0.78 against claim
Candidates(s, claim) ==
  {id \in Ids(s) : ScoreGE(ScoreAgainst(s, claim, id), Score(78, 100))}

\* The earliest-created of the candidates with the highest score
BestCandidate(s, claim) ==
  CHOOSE id \in Candidates(s, claim) :
    \A other \in Candidates(s, claim) :
      \/ ScoreGT(ScoreAgainst(s, claim, id), ScoreAgainst(s, claim, other))
      \/ (ScoreEqual(ScoreAgainst(s, claim, id), ScoreAgainst(s, claim, other))
          /\ id <= other)

\* The record the matching policy resolves claim to, or None
Resolved(s, claim) ==
  IF NormalizedTable[claim] \in DOMAIN s.claimIndex
  THEN s.claimIndex[NormalizedTable[claim]]
  ELSE IF Candidates(s, claim) # {} THEN BestCandidate(s, claim)
  ELSE None

\* A new record for claim is in after, queued with revision 1 and indexed,
\* and its item is at the front of the queue if urgent, else at the back
CreatedIn(s, after, claim, urgent) ==
  LET id == after.latestClaimId
      item == [id |-> id, claim |-> claim, context |-> Context, revision |-> 1,
               urgent |-> urgent]
  IN  /\ id \notin Ids(s)
      /\ Ids(after) = Ids(s) \cup {id}
      /\ \A old \in Ids(s) : after.claimById[old] = s.claimById[old]
      /\ after.claimById[id].claim = claim
      /\ after.claimById[id].revision = 1
      /\ after.claimById[id].status = "queued"
      /\ NormalizedTable[claim] \in DOMAIN after.claimIndex
      /\ after.claimIndex[NormalizedTable[claim]] = id
      /\ after.factCheckQueue =
           IF urgent THEN <<item>> \o s.factCheckQueue
           ELSE Append(s.factCheckQueue, item)

\* C24: queueClaimCheck resolves the text to the record indexed under its
\* normalized text if there is one, otherwise to the record with the
\* highest score of at least 0.78 (the earliest-created on equal scores),
\* and otherwise creates a record with revision 1 and status queued,
\* indexes it and enqueues its item at the front if urgent, else at the back.
C24_MatchingPolicy ==
  \A s \in CallStates : \A claim \in ClaimTexts : \A f \in CallFlags :
    LET after == queueClaimCheck(s, claim, Context, f[1], f[2], now)
    IN  IF Resolved(s, claim) # None
        THEN /\ after.latestClaimId = Resolved(s, claim)
             /\ Ids(after) = Ids(s)
        ELSE CreatedIn(s, after, claim, f[1])

\* A text without an indexed record scores the same, at least 0.78, against
\* two records that were created for texts without a match
C24_Witness ==
  /\ \E claim \in ClaimTexts : \E id, other \in Ids(Registry) :
       /\ NormalizedTable[claim] \notin DOMAIN claimIndex
       /\ id # other
       /\ {id, other} \subseteq Candidates(Registry, claim)
       /\ ScoreEqual(ScoreAgainst(Registry, claim, id), ScoreAgainst(Registry, claim, other))
       /\ Resolved(Registry, claim) = 1
  /\ Cardinality(Ids(Registry)) = 2

\* The status of record id in s
StatusIn(s, id) == IF id \in Ids(s) THEN s.claimById[id].status ELSE "none"

\* The changes of status from s to after, as pairs <<from, to>>
StatusChanges(s, after) ==
  {<<StatusIn(s, id), StatusIn(after, id)>> :
     id \in {id \in Ids(after) : StatusIn(s, id) # StatusIn(after, id)}}

\* From s, queueClaimCheck only creates queued records and re-queues, and
\* the processQueue that follows only starts queued records
CallsChangeStatus(s) ==
  \A claim \in ClaimTexts : \A f \in CallFlags :
    LET called == queueClaimCheck(s, claim, Context, f[1], f[2], now)
    IN  /\ StatusChanges(s, called) \subseteq
             {<<"none", "queued">>, <<"checking", "queued">>, <<"done", "queued">>}
        /\ StatusChanges(called, processQueue(called)) \subseteq {<<"queued", "checking">>}

\* A response only completes the record of its request, from checking and
\* only when the request is for the current revision, and the processQueue
\* that continues only starts queued records
ResponsesChangeStatus ==
  \A item \in workers :
    \A answered \in {applyResult(Registry, item, now), applyError(Registry, item)} :
      /\ StatusChanges(Registry, answered) \subseteq {<<"checking", "done">>}
      /\ \A id \in Ids(Registry) :
           StatusIn(answered, id) # StatusIn(Registry, id) =>
             id = item.id /\ IsCurrent(Registry, item)
      /\ IsCurrent(Registry, item) => StatusIn(answered, item.id) = "done"
      /\ StatusChanges(answered, processQueueResume(answered, item)) \subseteq
           {<<"queued", "checking">>}

\* C25: a record's status changes only from queued to checking (the worker
\* pops its item), from checking to done (a response for the current
\* revision) and to queued (queueClaimCheck re-queues it, from checking,
\* done or queued); never from queued to done nor from done to checking.
C25_StatusMachine ==
  /\ \A s \in CallStates : CallsChangeStatus(s)
  /\ ResponsesChangeStatus
  /\ StatusChanges(Registry, processQueue(Registry)) = {}

\* A record that was done has been re-queued and is being checked again,
\* while its earlier request was answered
C25_Witness ==
  \E id \in DOMAIN claimById :
    /\ claimById[id].status = "checking"
    /\ claimById[id].lastCheckedAt # None
    /\ AppliedTo(id) # <<>>

\* The number of items of queue for record id
CountFor(queue, id) == Cardinality({i \in 1..Len(queue) : queue[i].id = id})

NoDuplicates(queue) == \A i, j \in 1..Len(queue) : queue[i].id = queue[j].id => i = j

\* C26: the verification queue never holds two items with the same record
\* id; enqueueing an item for an id removes the item already queued for
\* that id, whether the new item is urgent or not.
C26_NoDuplicateQueueEntries ==
  /\ NoDuplicates(factCheckQueue)
  /\ \A s \in CallStates : \A claim \in ClaimTexts : \A f \in CallFlags :
       NoDuplicates(queueClaimCheck(s, claim, Context, f[1], f[2], now).factCheckQueue)
  /\ \A id \in Ids(Registry) : \A urgent \in BOOLEAN :
       LET item == [id |-> id, claim |-> claimById[id].claim, context |-> Context,
                    revision |-> claimById[id].revision + 1, urgent |-> urgent]
           queue == enqueueClaim(factCheckQueue, item)
       IN  /\ CountFor(queue, id) = 1
           /\ WithoutId(queue, id) = WithoutId(factCheckQueue, id)
           /\ item = IF urgent THEN Head(queue) ELSE queue[Len(queue)]

\* Two items wait and a call that is not urgent re-queues the record of
\* the first, whose item moves to the back with the new revision
C26_Witness ==
  /\ Len(factCheckQueue) = 2
  /\ \E claim \in ClaimTexts :
       LET after == queueClaimCheck(Registry, claim, Context, FALSE, FALSE, now)
       IN  /\ Len(after.factCheckQueue) = 2
           /\ after.factCheckQueue[2].id = factCheckQueue[1].id
           /\ after.factCheckQueue[2].revision = factCheckQueue[1].revision + 1
           /\ after.factCheckQueue[1] = factCheckQueue[2]

\* claim resolves in s to a record that is queued or checking and whose
\* text is, after trimming, the text of claim
MatchesInProgress(s, claim) ==
  LET m == MatchOf(s, claim)
  IN  /\ m # NoMatch
      /\ s.claimById[m.id].status \in {"queued", "checking"}
      /\ TrimTable[s.claimById[m.id].claim] = TrimTable[claim]

\* C27: when queueClaimCheck, neither urgent nor forced, matches a record
\* that is queued or checking and whose text equals the incoming text after
\* trimming, nothing changes: the records (revision, status, text), the
\* index, the queue and its order and the published list stay, and the
\* outstanding request of the record remains current.
C27_InProgressNoOp ==
  \A claim \in AllTexts :
    MatchesInProgress(Registry, claim) =>
      LET after == queueClaimCheck(Registry, claim, Context, FALSE, FALSE, now)
      IN  /\ after.claimById = claimById
          /\ after.claimIndex = claimIndex
          /\ after.factCheckQueue = factCheckQueue
          /\ after.factChecks = factChecks
          /\ after.workers = workers
          /\ after.latestClaimId = MatchOf(Registry, claim).id
          /\ \A item \in workers : IsCurrent(Registry, item) => IsCurrent(after, item)
          /\ processQueue(after).claimById = processQueue(Registry).claimById
          /\ processQueue(after).factCheckQueue = processQueue(Registry).factCheckQueue

\* The record being checked is proposed again with white space around its
\* text while another record waits in the queue
C27_Witness ==
  \E id \in DOMAIN claimById :
    /\ claimById[id].status = "checking"
    /\ claimById[id].claim = TxAnt
    /\ MatchesInProgress(Registry, TxAntPadded)
    /\ MatchOf(Registry, TxAntPadded).id = id
    /\ Len(factCheckQueue) >= 1

\* claim resolves to a done record that has been checked, with score >= 0.92
MatchesChecked(claim) ==
  LET m == MatchOf(Registry, claim)
  IN  /\ m # NoMatch
      /\ claimById[m.id].status = "done"
      /\ claimById[m.id].lastCheckedAt # None
      /\ ScoreGE(m.score, Score(92, 100))

\* C28: a queueClaimCheck that is neither urgent nor forced and matches a
\* done record with score >= 0.92 changes nothing while less than 5 minutes
\* have passed since lastCheckedAt; from 5 minutes on it bumps the revision,
\* sets the status to queued and enqueues an item with the new revision.
C28_TtlExpiry ==
  \A claim \in ClaimTexts :
    MatchesChecked(claim) =>
      LET id == MatchOf(Registry, claim).id
          after == queueClaimCheck(Registry, claim, Context, FALSE, FALSE, now)
      IN  IF now - claimById[id].lastCheckedAt < 5 * 60 * 1000
          THEN /\ after.claimById = claimById
               /\ after.factCheckQueue = factCheckQueue
               /\ after.factChecks = factChecks
          ELSE /\ after.claimById[id].revision = claimById[id].revision + 1
               /\ after.claimById[id].status = "queued"
               /\ Len(after.factCheckQueue) = Len(factCheckQueue) + 1
               /\ after.factCheckQueue[Len(after.factCheckQueue)] =
                    [id |-> id, claim |-> claim, context |-> Context,
                     revision |-> claimById[id].revision + 1, urgent |-> FALSE]

\* Exactly 5 minutes after a record was checked a text matches it
C28_Witness ==
  \E claim \in ClaimTexts :
    /\ MatchesChecked(claim)
    /\ now - claimById[MatchOf(Registry, claim).id].lastCheckedAt = CLAIM_TTL_MS

\* One millisecond less than 5 minutes after a record was checked a text
\* matches it
C28_WitnessFresh ==
  \E claim \in ClaimTexts :
    /\ MatchesChecked(claim)
    /\ now - claimById[MatchOf(Registry, claim).id].lastCheckedAt = CLAIM_TTL_MS - 1

\* The item with this key waits in the queue
Waiting(key) == \E i \in 1..Len(factCheckQueue) : KeyOf(factCheckQueue[i]) = key

\* An item enqueued later for the same record took the place of this one
Replaced(key) ==
  \E later \in DOMAIN created : later[1] = key[1] /\ later[2] > key[2]

\* C29: every work item is enqueued once and popped at most once: an item
\* that waits in the queue has not been popped, an item whose request is
\* outstanding has been popped once, no item is popped twice or put back
\* after its pop, and an item that left the queue without being popped was
\* removed by a later enqueue for the same record.
C29_ConsumedAtMostOnce ==
  /\ \A key \in DOMAIN created : created[key] = 1
  /\ \A key \in DOMAIN consumed : key \in DOMAIN created /\ consumed[key] = 1
  /\ \A i \in 1..Len(factCheckQueue) :
       /\ KeyOf(factCheckQueue[i]) \in DOMAIN created
       /\ KeyOf(factCheckQueue[i]) \notin DOMAIN consumed
  /\ \A item \in workers : KeyOf(item) \in DOMAIN consumed
  /\ \A key \in DOMAIN created :
       (~Waiting(key) /\ key \notin DOMAIN consumed) => Replaced(key)

\* An item was removed by a later enqueue without being popped, the later
\* item was popped, and an item of another record was popped when stale
C29_Witness ==
  /\ \E key \in DOMAIN created :
       /\ ~Waiting(key)
       /\ key \notin DOMAIN consumed
       /\ <<key[1], key[2] + 1>> \in DOMAIN consumed
  /\ \E key \in DOMAIN consumed : \A item \in workers : KeyOf(item) # key

\* C29 as the specification words it: every item created by an enqueue is
\* popped exactly once, so an item that no longer waits has been popped.
C29_ConsumedExactlyOnce ==
  \A key \in DOMAIN created :
    IF Waiting(key) THEN key \notin DOMAIN consumed
    ELSE key \in DOMAIN consumed /\ consumed[key] = 1

\* The outstanding verification requests for record id
RequestsFor(id) == {item \in workers : item.id = id}

\* While a request for a record is outstanding, the record's
\* inFlightRevision is the revision of that request
C30_SetWhileOutstanding ==
  \A id \in DOMAIN claimById : \A item \in RequestsFor(id) :
    claimById[id].inFlightRevision = item.revision

\* C30: a record's inFlightRevision is the revision of the outstanding
\* verification request for the record, and it is cleared whenever no
\* request for the record is outstanding, also after a stale response has
\* been discarded.
C30_InFlightTracksRequest ==
  /\ C30_SetWhileOutstanding
  /\ \A id \in DOMAIN claimById :
       RequestsFor(id) = {} => claimById[id].inFlightRevision = None

\* A stale response has been discarded and the record keeps the revision of
\* the request it belonged to, with no request for the record outstanding
C30_StaleLeftSet ==
  /\ lastEvent.op = "stale"
  /\ lastEvent.item.id \in DOMAIN claimById
  /\ RequestsFor(lastEvent.item.id) = {}
  /\ claimById[lastEvent.item.id].inFlightRevision = lastEvent.item.revision

\* The outcome of the queueClaimCheck call made last in s
LastOutcome(s) == s.calls[Len(s.calls)].outcome

\* The registry, index, queue and published list of s and after agree
SameRegistry(s, after) ==
  /\ after.claimById = s.claimById
  /\ after.claimIndex = s.claimIndex
  /\ after.factCheckQueue = s.factCheckQueue
  /\ after.factChecks = s.factChecks
  /\ after.latestClaimId = s.latestClaimId
  /\ after.workers = s.workers
  /\ after.isProcessing = s.isProcessing

\* C31: queueClaimCheck called a second time with the same text, neither
\* urgent nor forced and with no event in between, leaves the records with
\* their revisions and statuses, the index, the queue and the published
\* list as the first call left them.
C31_Idempotent ==
  \A claim \in AllTexts :
    SameRegistry(queueClaimCheck(Registry, claim, Context, FALSE, FALSE, now),
                 queueClaimCheck(queueClaimCheck(Registry, claim, Context, FALSE, FALSE, now),
                                 claim, Context, FALSE, FALSE, now))

\* A first call would re-queue a record under a new text, and a second
\* call finds that record in progress
C31_Witness ==
  \E claim \in AllTexts :
    /\ MatchOf(Registry, claim) # NoMatch
    /\ TrimTable[claimById[MatchOf(Registry, claim).id].claim] # TrimTable[claim]
    /\ LastOutcome(queueClaimCheck(Registry, claim, Context, FALSE, FALSE, now)) = "requeued"
    /\ LastOutcome(queueClaimCheck(queueClaimCheck(Registry, claim, Context, FALSE, FALSE, now),
                                   claim, Context, FALSE, FALSE, now)) = "inprogress"

\* The candidates of the responses looked at: one or two claims
MaxCandidates == 2

CandidateTexts == {TxAnt, TxEel}

CandidateLists == SeqsUpTo(CandidateTexts, MaxCandidates) \ {<<>>}

\* The queueClaimCheck calls made for a response to a request flushed with
\* intent carry, candidate by candidate, the flags of the rule
FlagsAsRuled(intent, claims, forcedSet) ==
  LET calls == extractResponse(Registry, intent, claims, forcedSet, Context, now).calls
  IN  /\ Len(calls) = Len(claims)
      /\ \A k \in 1..Len(claims) :
           /\ calls[k].claim = claims[k]
           /\ calls[k].forceCheck = (intent.hasExplicitVerify \/ claims[k] \in forcedSet)
           /\ calls[k].urgent = (intent.hasDispute \/ calls[k].forceCheck)

\* Whatever the response to an outstanding extraction request, its
\* candidates are queued with the flags of the rule
C32_CallsCarryFlags ==
  \A intent \in {extractions[i].intent : i \in 1..Len(extractions)} :
    \A claims \in CandidateLists : \A forcedSet \in SUBSET Range(claims) :
      FlagsAsRuled(intent, claims, forcedSet)

\* A flush hands the flags of its batch to the request and resets them
C32_FlushCarriesIntent ==
  (lastEvent'.op \in {"timer", "stop"} /\ Len(extractions') > Len(extractions)) =>
    /\ extractions'[Len(extractions')].intent = IntentOf(batch)
    /\ pendingIntent' = NoIntent

\* C32: every candidate of an extraction response is passed to
\* queueClaimCheck with forceCheck = (the flushed batch had explicit-verify
\* intent, or the candidate is among the forced claims) and urgent = (the
\* batch had dispute intent, or forceCheck); the intent flags are the OR
\* over the fragments accumulated since the previous flush and are reset to
\* false when the batch is flushed.
C32_CandidateFlags ==
  /\ [](C32_CallsCarryFlags /\ pendingIntent = IntentOf(batch))
  /\ [][C32_FlushCarriesIntent]_vars

\* A batch of two fragments, the first with a dispute cue, was flushed; its
\* request is outstanding with the dispute flag alone, so that of two
\* candidates a forced one is queued forced and the other urgent only
C32_Witness ==
  /\ Len(extractions) >= 1
  /\ extractions[1].newText = FrWrong \o <<" ">> \o FrCats
  /\ extractions[1].intent = [hasDispute |-> TRUE, hasExplicitVerify |-> FALSE]
  /\ pendingIntent = NoIntent
  /\ LET calls == extractResponse(Registry, extractions[1].intent, <<TxAnt, TxEel>>,
                                  {TxEel}, Context, now).calls
     IN  /\ calls[1].urgent /\ ~calls[1].forceCheck
         /\ calls[2].urgent /\ calls[2].forceCheck

\* The fragments of history younger than the context window at time t
Young(history, t) ==
  SelectSeq(history, LAMBDA chunk : t - chunk.timestamp < CONTEXT_WINDOW_MS)

\* The context string made of the fragments younger than the window at t
YoungContext(history, t) == JoinSpace(TextsOf(Young(history, t)))

\* context is the texts of consecutive fragments that are all younger than
\* the window at time t
MadeOfYoung(context, history, t) ==
  \E i \in 1..(Len(Young(history, t)) + 1) : \E j \in 0..Len(Young(history, t)) :
    context = JoinSpace(TextsOf(SubSeq(Young(history, t), i, j)))

\* The buffer is in arrival order and none of its fragments was as old as
\* the window when the latest fragment arrived
C33_BufferPruned ==
  /\ \A k \in 1..(Len(transcriptHistory) - 1) :
       transcriptHistory[k].timestamp <= transcriptHistory[k + 1].timestamp
  /\ \A k \in 1..Len(transcriptHistory) :
       transcriptHistory[Len(transcriptHistory)].timestamp - transcriptHistory[k].timestamp
         < CONTEXT_WINDOW_MS

\* An arriving fragment is appended, and the fragments as old as the
\* window or older are dropped
C33_ArrivalPrunes ==
  lastEvent'.op = "fragment" =>
    /\ transcriptHistory' # <<>>
    /\ transcriptHistory'[Len(transcriptHistory')].timestamp = now
    /\ transcriptHistory' =
         Young(Append(transcriptHistory, transcriptHistory'[Len(transcriptHistory')]), now)

\* An extraction request carries the fragments younger than the window at
\* the time it is sent
C33_ExtractionContext ==
  Len(extractions') > Len(extractions) =>
    extractions'[Len(extractions')].recentContext = YoungContext(transcriptHistory', now')

\* The work items created by the step
NewItems ==
  {item \in Range(factCheckQueue') \cup workers' : KeyOf(item) \notin DOMAIN created}

\* A work item carries the fragments younger than the window at the time
\* it is created
C33_SnapshotContext ==
  \A item \in NewItems : item.context = YoungContext(transcriptHistory', now')

\* A verification request carries only fragments younger than the window
\* at the time it is sent
C33_VerificationContext ==
  \A item \in workers' \ workers : MadeOfYoung(item.context, transcriptHistory', now')

\* The context window as the code keeps it: the buffer is pruned on every
\* arrival, an extraction request carries the fragments younger than 5
\* minutes when it is sent, and a work item carries the fragments younger
\* than 5 minutes when it is created.
C33_ContextAtReading ==
  /\ [](C33_BufferPruned)
  /\ [][C33_ArrivalPrunes /\ C33_ExtractionContext /\ C33_SnapshotContext]_vars

\* C33: the transcript buffer holds only fragments younger than 5 minutes
\* as of the latest arrival, in arrival order; the recent-context string is
\* the space-joined texts of the fragments younger than 5 minutes when it
\* is read; and a fragment 5 minutes old or older never appears in a
\* context sent to extraction or to verification.
C33_ContextWindow ==
  /\ [](C33_BufferPruned)
  /\ [][/\ C33_ArrivalPrunes /\ C33_ExtractionContext /\ C33_SnapshotContext
        /\ C33_VerificationContext]_vars

\* A response has just made the worker send the next item, whose context
\* holds a fragment that is by now as old as the window
C33_Witness ==
  /\ lastEvent.op \in {"result", "stale"}
  /\ \E item \in workers :
       /\ item.context # <<>>
       /\ ~MadeOfYoung(item.context, transcriptHistory, now)

\* Two fragments have arrived and the first was dropped from the buffer
C33_WitnessPruned ==
  /\ timerCount = 2
  /\ Len(transcriptHistory) = 1

\* Every item that waits in the queue carries the revision of its record
C34_WaitingIsCurrent ==
  \A i \in 1..Len(factCheckQueue) : IsCurrent(Registry, factCheckQueue[i])

\* Every item popped by the step has its request outstanding after the step
C34_PoppedIsSent ==
  \A key \in DOMAIN consumed' :
    CountOf(consumed', key) > CountOf(consumed, key) =>
      \E item \in workers' : KeyOf(item) = key

\* C34: every item in the verification queue carries the current revision
\* of its record, since a revision bump replaces the record's queued item in
\* the same step; so the staleness check on pop never discards an item and
\* every popped item leads to a verification call.
C34_QueuedNeverStale ==
  /\ [](C34_WaitingIsCurrent /\ processQueue(Registry).discarded = {})
  /\ [][C34_PoppedIsSent]_vars

\* The queued item of a record was replaced by the item of a later
\* revision, which waits while the worker is busy with another record
C34_Witness ==
  \E i \in 1..Len(factCheckQueue) :
    /\ factCheckQueue[i].revision >= 2
    /\ <<factCheckQueue[i].id, factCheckQueue[i].revision - 1>> \in DOMAIN created
    /\ <<factCheckQueue[i].id, factCheckQueue[i].revision - 1>> \notin DOMAIN consumed
    /\ \E item \in workers : item.id # factCheckQueue[i].id

\* C35: a record has status queued exactly when the verification queue
\* holds one item for its id, and no other number of items ever; a record
\* that is checking or done has no item in the queue.
C35_StatusQueueAgreement ==
  /\ \A i \in 1..Len(factCheckQueue) : factCheckQueue[i].id \in DOMAIN claimById
  /\ \A id \in DOMAIN claimById :
       /\ CountFor(factCheckQueue, id) <= 1
       /\ claimById[id].status = "queued" <=> CountFor(factCheckQueue, id) = 1
       /\ claimById[id].status \in {"checking", "done"} =>
            CountFor(factCheckQueue, id) = 0

\* A record that was verified before waits in the queue again, a second
\* one is being checked and has no item in the queue
C35_Witness ==
  \E a, b \in DOMAIN claimById :
    /\ claimById[a].status = "queued"
    /\ claimById[a].lastCheckedAt # None
    /\ CountFor(factCheckQueue, a) = 1
    /\ claimById[b].status = "checking"
    /\ CountFor(factCheckQueue, b) = 0

\* The published entry of record id agrees with the record
EntryAgrees(record, entry) ==
  /\ entry.isLoading <=> record.status \in {"queued", "checking"}
  /\ entry.isLoading => entry.result = NullResult /\ entry.error = Undefined
  /\ record.status = "done" =>
       /\ ~entry.isLoading
       /\ (entry.result # NullResult) # (entry.error # Undefined)

\* C36: a published entry is loading exactly when its record is queued or
\* checking; when the record is done the entry is not loading and holds a
\* result or an error, never both and never neither; and a re-queue clears
\* the previous result and error, so a loading entry holds neither.
C36_EntryAgreesWithStatus ==
  \A id \in DOMAIN claimById :
    /\ HasEntry(factChecks, id)
    /\ Cardinality({i \in 1..Len(factChecks) : factChecks[i].id = id}) = 1
    /\ EntryAgrees(claimById[id], EntryOf(factChecks, id))

\* A record that had been verified with a result was re-queued and its
\* entry is loading without the result, while another record is done with
\* an error
C36_Witness ==
  \E a, b \in DOMAIN claimById :
    /\ claimById[a].status \in {"queued", "checking"}
    /\ claimById[a].lastCheckedAt # None
    /\ EntryOf(factChecks, a).isLoading
    /\ EntryOf(factChecks, a).result = NullResult
    /\ claimById[b].status = "done"
    /\ EntryOf(factChecks, b).error = ErrorMessage

\* The queue after a queueClaimCheck call that enqueued item: the items
\* that waited keep their order, an urgent item is ahead of them all and
\* any other item behind them all; the record's earlier item is gone
QueueWith(queue, item) ==
  IF item.urgent THEN <<item>> \o WithoutId(queue, item.id)
  ELSE Append(WithoutId(queue, item.id), item)

\* Whatever call is made in a reachable state, the items that wait keep
\* their order, and the item the call enqueues goes to the front when it is
\* urgent and to the back when it is not, also when the record had an item
\* waiting further ahead
C37_EnqueueOrder ==
  \A claim \in ClaimTexts : \A f \in CallFlags :
    LET after == queueClaimCheck(Registry, claim, Context, f[1], f[2], now)
    IN  IF after.enqueued = <<>>
        THEN after.factCheckQueue = factCheckQueue
        ELSE /\ Len(after.enqueued) = 1
             /\ after.enqueued[1].urgent = f[1]
             /\ after.factCheckQueue = QueueWith(factCheckQueue, after.enqueued[1])

\* Urgent items wait ahead of the others, and items wait only while the
\* worker is busy
C37_UrgentAhead ==
  /\ \A i, j \in 1..Len(factCheckQueue) :
       (i < j /\ factCheckQueue[j].urgent) => factCheckQueue[i].urgent
  /\ ~isProcessing => factCheckQueue = <<>>

\* The worker takes the item at the head of the queue: an item that waited
\* is sent only from the head and the others stay in their order; with
\* nothing waiting the item sent was enqueued by the same step
C37_PopsHead ==
  \A item \in workers' \ workers :
    IF factCheckQueue # <<>>
    THEN item = Head(factCheckQueue) /\ factCheckQueue' = Tail(factCheckQueue)
    ELSE KeyOf(item) \notin DOMAIN created

\* C37: the items are served in queue order, from the head; an item that is
\* not urgent joins at the back, also when it replaces an item of its
\* record that waited further ahead; an urgent item joins at the front,
\* ahead of every item that waits, so that of two urgent items that wait
\* the one enqueued later is served first.
C37_ServiceOrder ==
  /\ [](C37_EnqueueOrder /\ C37_UrgentAhead)
  /\ [][C37_PopsHead]_vars

\* Two urgent items wait; the one at the head was enqueued later, for the
\* record whose earlier request is still outstanding
C37_Witness ==
  /\ Len(factCheckQueue) = 2
  /\ factCheckQueue[1].urgent /\ factCheckQueue[2].urgent
  /\ factCheckQueue[1].revision = 2
  /\ \E item \in workers : item.id = factCheckQueue[1].id /\ item.revision = 1

\* A response has arrived and the worker has taken the head of two items
\* that waited, an urgent one enqueued after the other
C37_WitnessServed ==
  /\ lastEvent.op \in {"result", "error", "stale"}
  /\ Len(factCheckQueue) = 1
  /\ ~factCheckQueue[1].urgent
  /\ \E item \in workers : item.urgent /\ item.id # factCheckQueue[1].id

\* The ways to cut seq into consecutive batches, none of them empty
RECURSIVE Segmentations(_)
Segmentations(seq) ==
  IF seq = <<>> THEN {<<>>}
  ELSE UNION {{<<SubSeq(seq, 1, k)>> \o rest :
                 rest \in Segmentations(SubSeq(seq, k + 1, Len(seq)))} :
              k \in 1..Len(seq)}

\* The texts of the extraction requests made for the batches: one for each
\* batch worth a call, in order, none for the others
SentTexts(batches) ==
  LET kept == SelectSeq(batches, LAMBDA b : LongEnough(b))
  IN  [i \in 1..Len(kept) |-> JoinSpace(kept[i])]

RequestTexts == [i \in 1..Len(extractions) |-> extractions[i].newText]

\* The fragments received so far, in arrival order
ReceivedFragments == TextsOf(transcriptHistory)

\* C38: the final fragments received so far fall into consecutive batches;
\* every batch but possibly the last was flushed, into exactly one
\* extraction request carrying its fragments joined in order when the
\* trimmed batch has 8 characters or a cue, and into none otherwise; the
\* last batch may still be pending, with its timer armed.  No fragment is in
\* two requests, and none is left out except in a dropped batch; requests
\* of earlier batches stay in flight meanwhile.
C38_NoFragmentTwiceOrLost ==
  \E batches \in Segmentations(ReceivedFragments) :
    \/ /\ pendingText = <<>>
       /\ RequestTexts = SentTexts(batches)
    \/ /\ batches # <<>>
       /\ pendingText = JoinSpace(batches[Len(batches)])
       /\ timers # {}
       /\ RequestTexts = SentTexts(SubSeq(batches, 1, Len(batches) - 1))

\* Two batches of one fragment were flushed one after the other; both
\* requests are in flight
C38_Witness ==
  /\ Len(ReceivedFragments) = 2
  /\ Len(extractions) = 2
  /\ pendingText = <<>>

\* A batch too short and without a cue was dropped, the next was sent
C38_WitnessDropped ==
  /\ ReceivedFragments = <<FrCats, FrEatFish>>
  /\ Len(extractions) = 1
  /\ extractions[1].newText = FrEatFish
  /\ pendingText = <<>>

\* The pending text is worth an extraction request
PendingWorthCall ==
  \/ Len(trim(pendingText)) >= MIN_EXTRACT_TEXT_CHARS
  \/ pendingIntent.hasDispute
  \/ pendingIntent.hasExplicitVerify

\* Listening stops with text pending: the timer is cancelled, the pending
\* text and flags are reset, and the text goes to doExtractClaims once, with
\* its flags: one request when it is worth a call, none otherwise
C39_StopFlushes ==
  (lastEvent'.op = "stop" /\ trim(pendingText) # <<>>) =>
    /\ timers' = {}
    /\ extractTimeout' = NoTimer
    /\ pendingText' = <<>>
    /\ pendingIntent' = NoIntent
    /\ IF PendingWorthCall
       THEN /\ Len(extractions') = Len(extractions) + 1
            /\ SubSeq(extractions', 1, Len(extractions)) = extractions
            /\ extractions'[Len(extractions')].newText = pendingText
            /\ extractions'[Len(extractions')].intent = pendingIntent
       ELSE extractions' = extractions

\* While the page does not listen no timer is armed and nothing is
\* pending, so no timer can fire for a text that the stop has flushed
C39_NothingLeft ==
  ~isListening => timers = {} /\ pendingText = <<>> /\ pendingIntent = NoIntent

\* No request is made while the page does not listen
C39_NoSecondRequest ==
  (~isListening /\ ~isListening') => extractions' = extractions

\* C39: when listening stops while the pending text is not blank, the
\* pending timer is cancelled and the pending text and intent flags are
\* flushed to doExtractClaims at once and once only; the cancelled timer
\* never fires a second extraction for the text, and the pending text and
\* the flags are empty afterwards.
C39_FlushOnStop ==
  /\ [](C39_NothingLeft)
  /\ [][C39_StopFlushes /\ C39_NoSecondRequest]_vars

\* The stop has flushed a batch of two fragments whose timer was armed
C39_Witness ==
  /\ lastEvent.op = "stop"
  /\ extractTimeout = NoTimer
  /\ timerCount = 2
  /\ timers = {}
  /\ Len(extractions) = 1
  /\ extractions[1].newText = FrCats \o <<" ">> \o FrEatFish
  /\ pendingText = <<>>

\* C39 read as a request for every stop: a request is made on every stop
\* with text pending.
C39_StopAlwaysRequests ==
  [][(lastEvent'.op = "stop" /\ trim(pendingText) # <<>>) =>
       Len(extractions') = Len(extractions) + 1]_vars

\* The most recent verification of record id ended in failure
LastCheckFailed(id) ==
  /\ claimById[id].status = "done"
  /\ HasEntry(factChecks, id)
  /\ EntryOf(factChecks, id).error = ErrorMessage

\* A call for the text of record id, neither urgent nor forced, re-queues
\* the record with the next revision
Retried(id) ==
  LET after == queueClaimCheck(Registry, claimById[id].claim, Context, FALSE, FALSE, now)
  IN  /\ after.claimById[id].revision = claimById[id].revision + 1
      /\ after.claimById[id].status = "queued"
      /\ \E i \in 1..Len(after.factCheckQueue) :
           KeyOf(after.factCheckQueue[i]) = <<id, claimById[id].revision + 1>>

\* A record whose only verifications failed is re-queued by the next call
\* for its claim
C40_FailedFirstCheckRetried ==
  \A id \in DOMAIN claimById :
    (LastCheckFailed(id) /\ claimById[id].lastCheckedAt = None) => Retried(id)

\* C40: after the most recent verification of a record ended in failure, a
\* later call for the same claim that is neither urgent nor forced is not
\* suppressed as a recently-done duplicate: it bumps the revision and
\* re-queues the record, also when an earlier verification of the record
\* had succeeded less than 5 minutes before.
C40_FailedNeverFresh ==
  \A id \in DOMAIN claimById : LastCheckFailed(id) => Retried(id)

\* The last verification of a record failed less than 5 minutes after an
\* earlier one had succeeded, and the next call for its claim changes
\* nothing
C40_FailedTreatedAsFresh ==
  \E id \in DOMAIN claimById :
    /\ LastCheckFailed(id)
    /\ claimById[id].lastCheckedAt # None
    /\ now - claimById[id].lastCheckedAt < CLAIM_TTL_MS
    /\ queueClaimCheck(Registry, claimById[id].claim, Context, FALSE, FALSE, now).claimById
         = claimById
    /\ queueClaimCheck(Registry, claimById[id].claim, Context, FALSE, FALSE, now).factCheckQueue
         = factCheckQueue

====
